---- MODULE Spec2Model ----
(***************************************************************************)
(* Instacart Grocery Price Index: a model of src/src/main.js.              *)
(*                                                                         *)
(* The file holds two programs.  Lines 1-235 are the CheerioCrawler        *)
(* variant (concurrent LIST / DETAIL request handlers).  Lines 237-1922    *)
(* are the hybrid HTTP + Playwright pipeline (sequential listing loop,     *)
(* optional detail enrichment).  Four specifications are defined:          *)
(*                                                                         *)
(*   SpecMerge    mergeProductDetails applied repeatedly to bounded inputs *)
(*   SpecFetch    fetchWithHTTP, one step per HTTP response                *)
(*   SpecCheerio  the CheerioCrawler handlers, interleaved at their awaits *)
(*   Spec         the run of the hybrid pipeline's main()                  *)
(***************************************************************************)
EXTENDS Integers, Sequences, FiniteSets, TLC

VARIABLES
    \* ---- SpecMerge
    m_target,      \* the record being enriched (target argument)
    m_detail,      \* the detail payload
    m_method,      \* the method argument
    m_now,         \* the wall clock read by new Date()
    m_calls,       \* number of applications of mergeProductDetails so far
    m_prev,        \* the target as it was before the last application
    m_ret,         \* the value returned by the last application
    \* ---- SpecFetch
    f_pc,          \* "call": a request is in flight, "sleep": in sleep(delay), "done"
    f_retryCount,  \* the retryCount argument of the running invocation
    f_requests,    \* number of HTTP requests issued so far
    f_sleeps,      \* the delays passed to sleep, in order
    f_responses,   \* what each request met: a response, or a network error
    f_return,      \* the value fetchWithHTTP returned (Undef while running)
    \* ---- SpecCheerio
    c_cfg,         \* the input: RESULTS_WANTED, MAX_PAGES, extractDetails, dedupe
    c_saved,       \* let saved
    c_seenUrls,    \* const seenUrls = new Set()
    c_dataset,     \* the records given to Dataset.pushData, in order
    c_queue,       \* the requests waiting in the crawler's request queue
    c_known,       \* the unique keys (URLs) the request queue has ever taken
    c_running      \* the request handlers in flight, each at one of its awaits

\* The hybrid pipeline, main() (main.js 286-1916)
VARIABLES p_cfg, p_pc, p_urlIdx, p_currentPage, p_saved, p_seenProductIds,
          p_allProducts, p_sink, p_usePlaywright, p_nextBuildId, p_now,
          p_scrapes, p_anyPage, p_lastFetch, p_last, p_need, p_chunkStart, p_pauses, p_batch, p_extracted,
          p_inflight, p_results, p_updated, p_stats

mergeVars == <<m_target, m_detail, m_method, m_now, m_calls, m_prev, m_ret>>
fetchVars == <<f_pc, f_retryCount, f_requests, f_sleeps, f_responses, f_return>>
pipeVars ==
    <<p_cfg, p_pc, p_urlIdx, p_currentPage, p_saved, p_seenProductIds,
      p_allProducts, p_sink, p_usePlaywright, p_nextBuildId, p_now,
      p_scrapes, p_anyPage, p_lastFetch, p_last, p_need, p_chunkStart, p_pauses, p_batch, p_extracted,
      p_inflight, p_results, p_updated, p_stats>>

cheerioVars == <<c_cfg, c_saved, c_seenUrls, c_dataset, c_queue, c_known, c_running>>

(***************************************************************************)
(* JavaScript values.  Every value is a record of one shape, so that any   *)
(* two of them can be compared: k is the type tag, n / e a decimal number  *)
(* n * 10^-e (or the truth value of a boolean in n), s a string as the     *)
(* sequence of its characters.                                             *)
(***************************************************************************)
Undef == [k |-> "undefined", n |-> 0, e |-> 0, s |-> <<>>]
Null == [k |-> "null", n |-> 0, e |-> 0, s |-> <<>>]
NaN == [k |-> "NaN", n |-> 0, e |-> 0, s |-> <<>>]
Str(chars) == [k |-> "string", n |-> 0, e |-> 0, s |-> chars]
Bool(b) == [k |-> "boolean", n |-> IF b THEN 1 ELSE 0, e |-> 0, s |-> <<>>]
Num(i) == [k |-> "number", n |-> i, e |-> 0, s |-> <<>>]

RECURSIVE Dec(_, _)
\* The decimal number m * 10^-e, trailing zeros of the fraction dropped.
Dec(m, e) ==
    IF e > 0 /\ m % 10 = 0 THEN Dec(m \div 10, e - 1)
    ELSE [k |-> "number", n |-> m, e |-> e, s |-> <<>>]

EmptyStr == Str(<<>>)
True == Bool(TRUE)
False == Bool(FALSE)

\* !v
Falsy(v) ==
    \/ v.k \in {"undefined", "null", "NaN"}
    \/ v.k = "number" /\ v.n = 0
    \/ v.k = "string" /\ v.s = <<>>
    \/ v.k = "boolean" /\ v.n = 0

Truthy(v) == ~Falsy(v)

\* a || b
Or(a, b) == IF Truthy(a) THEN a ELSE b

\* The store name used when no retailer is known.
Instacart == Str(<<"I", "n", "s", "t", "a", "c", "a", "r", "t">>)

(***************************************************************************)
(* Product records.  A record is a function from field names to values;    *)
(* a property the object does not have reads as undefined.                 *)
(***************************************************************************)
MergeFields ==
    {"product_id", "price", "original_price", "unit_price", "brand", "size",
     "image_url", "product_url", "in_stock", "store", "store_slug", "currency"}

StampFields == {"detail_extraction_method", "enriched_at"}

OtherFields ==
    {"name", "category", "extraction_method", "source_url", "timestamp", "zipcode"}

AllFields == MergeFields \cup StampFields \cup OtherFields

EmptyObj == [f \in AllFields |-> Undef]

\* A null / undefined object reference.
NullObj == [null |-> TRUE]

\* new Date().toISOString() at clock reading t
IsoTime(t) == [k |-> "time", n |-> t, e |-> 0, s |-> <<>>]

\* An always-replace variant of MergeShouldReplace (last writer wins).
MergeShouldReplaceAlways(field, current) == TRUE

\* shouldReplace of mergeProductDetails
MergeShouldReplace(field, current) ==
    \/ current = Undef
    \/ current = Null
    \/ current = EmptyStr
    \/ field = "store" /\ current = Instacart
    \/ field = "price" /\ (Falsy(current) \/ current = Num(0))

\* A variant of MergeReplaced that lets any incoming value through.
MergeReplacedAny(target, detail) ==
    {f \in MergeFields : MergeShouldReplace(f, target[f])}

\* The fields of one application of mergeProductDetails that are assigned.
MergeReplaced(target, detail) ==
    {f \in MergeFields :
        /\ detail[f] # Undef /\ detail[f] # Null /\ detail[f] # EmptyStr
        /\ MergeShouldReplace(f, target[f])}

\* target[field] = detail[field] for every field of the set.
RECURSIVE MergeAssign(_, _, _)
MergeAssign(target, detail, fields) ==
    IF fields = {} THEN target
    ELSE LET field == CHOOSE f \in fields : TRUE
         IN MergeAssign([target EXCEPT ![field] = detail[field]], detail, fields \ {field})

\* mergeProductDetails(target, detail, method) at clock reading now:
\* the target after the call and the value returned.
mergeProductDetails(target, detail, method, now) ==
    IF target = NullObj \/ detail = NullObj THEN [target |-> target, updated |-> FALSE]
    ELSE LET repl == MergeReplaced(target, detail)
             updated == repl # {}
             assigned == MergeAssign(target, detail, repl)
         IN [target |->
                IF updated /\ Truthy(method)
                THEN [assigned EXCEPT !["detail_extraction_method"] = method,
                                      !["enriched_at"] = IsoTime(now)]
                ELSE assigned,
             updated |-> updated]

(***************************************************************************)
(* SpecMerge: mergeProductDetails applied again and again to one target,   *)
(* with the same detail payload and method, the clock standing still or    *)
(* advancing between two applications.                                     *)
(***************************************************************************)
MaxMergeCalls == 2

AcmeMarket == Str(<<"A", "c", "m", "e", " ", "M", "a", "r", "k", "e", "t">>)
Safeway == Str(<<"S", "a", "f", "e", "w", "a", "y">>)

\* The values a field of a record can hold.
FieldValues(f) ==
    CASE f \in {"price", "original_price"} -> {Undef, Null, Num(0), Dec(349, 2), Dec(599, 2)}
      [] f = "in_stock" -> {Undef, True, False}
      [] f = "store" -> {Undef, Null, EmptyStr, Instacart, AcmeMarket, Safeway}
      [] OTHER -> {Undef, Null, EmptyStr, Str(<<"a">>), Str(<<"b">>)}

\* A listing record without price and brand, its store the placeholder
\* (extractProductFields on a node of a page that has no /store/ segment).
ListingRecord ==
    [EmptyObj EXCEPT !["product_id"] = Str(<<"1">>), !["name"] = Str(<<"n">>),
                     !["brand"] = Null, !["price"] = Null, !["original_price"] = Null,
                     !["size"] = Null, !["image_url"] = Null,
                     !["product_url"] = Str(<<"u">>), !["in_stock"] = True,
                     !["store"] = Instacart, !["store_slug"] = Null,
                     !["timestamp"] = IsoTime(0),
                     !["extraction_method"] = Str(<<"apollo_graphql">>)]

\* A record that every earlier pass has already filled.
FullRecord ==
    [ListingRecord EXCEPT !["brand"] = Str(<<"a">>), !["price"] = Dec(349, 2),
                          !["original_price"] = Dec(599, 2), !["size"] = Str(<<"a">>),
                          !["image_url"] = Str(<<"a">>), !["store"] = AcmeMarket,
                          !["store_slug"] = Str(<<"a">>), !["unit_price"] = Str(<<"a">>),
                          !["currency"] = Str(<<"a">>)]

MergeTargets ==
    {[base EXCEPT ![f] = v] : <<base, f, v>> \in
        UNION {{<<b, g, w>> : w \in FieldValues(g)} :
                  <<b, g>> \in {ListingRecord, FullRecord} \X MergeFields}}

\* A detail payload whose store is the placeholder (a product URL without a
\* /store/ segment), and one of a retailer page.
PlaceholderDetail == [EmptyObj EXCEPT !["store"] = Instacart]
AcmeDetail ==
    [EmptyObj EXCEPT !["store"] = AcmeMarket, !["brand"] = Str(<<"b">>),
                     !["price"] = Dec(599, 2)]

\* Detail payloads: one of the above with one more field set, or no object.
MergeDetails ==
    {NullObj} \cup
    {[base EXCEPT ![f] = v] : <<base, f, v>> \in
        UNION {{<<b, g, w>> : w \in FieldValues(g) \cup (IF g = "price" THEN {NaN} ELSE {})} :
                  <<b, g>> \in {EmptyObj, PlaceholderDetail, AcmeDetail} \X MergeFields}}

MergeMethods == {Undef, Str(<<"next_data_json">>)}

MergeInit ==
    /\ m_target \in MergeTargets
    /\ m_detail \in MergeDetails
    /\ m_method \in MergeMethods
    /\ m_now = 1
    /\ m_calls = 0
    /\ m_prev = m_target
    /\ m_ret = FALSE

MergeIdle ==
    /\ m_target = NullObj
    /\ m_detail = NullObj
    /\ m_method = Undef
    /\ m_now = 0
    /\ m_calls = 0
    /\ m_prev = NullObj
    /\ m_ret = FALSE

\* One call mergeProductDetails(m_target, m_detail, m_method); the clock
\* read by the call is the one of the previous call or a later one.
MergeApply ==
    /\ m_calls < MaxMergeCalls
    /\ \E dt \in {0, 1} :
        LET r == mergeProductDetails(m_target, m_detail, m_method, m_now + dt)
        IN /\ m_prev' = m_target
           /\ m_target' = r.target
           /\ m_ret' = r.updated
           /\ m_now' = m_now + dt
    /\ m_calls' = m_calls + 1
    /\ UNCHANGED <<m_detail, m_method>>

(***************************************************************************)
(* SpecFetch: one call fetchWithHTTP(url), a step per HTTP response.  The  *)
(* server answers each request with any status and body, or the request    *)
(* throws (network error, 30 s timeout).                                   *)
(***************************************************************************)
MAX_RETRIES == 3
BackoffBaseMs == 1000

\* The substring that marks the embedded state blob.
ApolloMarker == "node-apollo-state"

\* Response bodies (responseType 'text'): a string, here the sequence of
\* its pieces.
Bodies ==
    {EmptyStr, Str(<<"<html>">>), Str(<<"<html>", ApolloMarker, "</html>">>)}

Statuses == {200, 202, 429, 403, 503, 404, 500}

\* The entry recorded for a request that threw instead of answering.
NetworkError == 0

\* normalizeHtmlBody
normalizeHtmlBody(body) ==
    IF body = Null \/ body = Undef THEN Null ELSE body

\* bodyText && bodyText.includes('node-apollo-state')
HasApolloMarker(bodyText) ==
    Truthy(bodyText) /\ \E i \in DOMAIN bodyText.s : bodyText.s[i] = ApolloMarker

\* A variant of FetchOutcome that gives up on every exhausted status alike.
FetchOutcomeNoBestEffort(status, bodyText, retryCount) ==
    IF status = 200 THEN [ret |-> TRUE, value |-> bodyText, delay |-> 0]
    ELSE IF status = 202 /\ HasApolloMarker(bodyText)
        THEN [ret |-> TRUE, value |-> bodyText, delay |-> 0]
    ELSE IF status \in {202, 429, 403, 503} /\ retryCount < MAX_RETRIES
        THEN [ret |-> FALSE, value |-> Undef, delay |-> BackoffBaseMs * 2 ^ retryCount]
    ELSE [ret |-> TRUE, value |-> Null, delay |-> 0]

\* A variant of FetchOutcome that returns the body of every exhausted status.
FetchOutcomeBestEffort(status, bodyText, retryCount) ==
    IF status = 200 THEN [ret |-> TRUE, value |-> bodyText, delay |-> 0]
    ELSE IF status = 202 /\ HasApolloMarker(bodyText)
        THEN [ret |-> TRUE, value |-> bodyText, delay |-> 0]
    ELSE IF status \in {202, 429, 403, 503} /\ retryCount < MAX_RETRIES
        THEN [ret |-> FALSE, value |-> Undef, delay |-> BackoffBaseMs * 2 ^ retryCount]
    ELSE IF status \in {202, 429, 403, 503}
        THEN [ret |-> TRUE, value |-> bodyText, delay |-> 0]
    ELSE [ret |-> TRUE, value |-> Null, delay |-> 0]

\* A variant of FetchOutcome that also retries every other non-200 status.
FetchOutcomeRetryAll(status, bodyText, retryCount) ==
    IF status = 200 THEN [ret |-> TRUE, value |-> bodyText, delay |-> 0]
    ELSE IF status = 202 /\ HasApolloMarker(bodyText)
        THEN [ret |-> TRUE, value |-> bodyText, delay |-> 0]
    ELSE IF retryCount < MAX_RETRIES
        THEN [ret |-> FALSE, value |-> Undef, delay |-> BackoffBaseMs * 2 ^ retryCount]
    ELSE IF status = 202 THEN [ret |-> TRUE, value |-> bodyText, delay |-> 0]
    ELSE [ret |-> TRUE, value |-> Null, delay |-> 0]

\* What fetchWithHTTP does with a response: return a value (ret), or sleep
\* for delay ms and call itself with retryCount + 1.
FetchOutcome(status, bodyText, retryCount) ==
    IF status = 200 THEN [ret |-> TRUE, value |-> bodyText, delay |-> 0]
    ELSE IF status = 202 THEN
        IF HasApolloMarker(bodyText) THEN [ret |-> TRUE, value |-> bodyText, delay |-> 0]
        ELSE IF retryCount < MAX_RETRIES
            THEN [ret |-> FALSE, value |-> Undef, delay |-> BackoffBaseMs * 2 ^ retryCount]
        ELSE [ret |-> TRUE, value |-> bodyText, delay |-> 0]
    ELSE IF status \in {429, 403, 503} /\ retryCount < MAX_RETRIES
        THEN [ret |-> FALSE, value |-> Undef, delay |-> BackoffBaseMs * 2 ^ retryCount]
    ELSE [ret |-> TRUE, value |-> Null, delay |-> 0]

FetchInit ==
    /\ f_pc = "call"
    /\ f_retryCount = 0
    /\ f_requests = 0
    /\ f_sleeps = <<>>
    /\ f_responses = <<>>
    /\ f_return = Undef

FetchIdle ==
    /\ f_pc = "idle"
    /\ f_retryCount = 0
    /\ f_requests = 0
    /\ f_sleeps = <<>>
    /\ f_responses = <<>>
    /\ f_return = Undef

\* The request of the running invocation is answered.
FetchResponse ==
    /\ f_pc = "call"
    /\ \E status \in Statuses, body \in Bodies :
        LET o == FetchOutcome(status, normalizeHtmlBody(body), f_retryCount)
        IN /\ f_responses' = Append(f_responses, [status |-> status, body |-> body])
           /\ f_pc' = IF o.ret THEN "done" ELSE "sleep"
           /\ f_return' = o.value
           /\ f_sleeps' = IF o.ret THEN f_sleeps ELSE Append(f_sleeps, o.delay)
    /\ f_requests' = f_requests + 1
    /\ UNCHANGED f_retryCount

\* The request throws: the catch block returns null.
FetchThrows ==
    /\ f_pc = "call"
    /\ f_requests' = f_requests + 1
    /\ f_pc' = "done"
    /\ f_return' = Null
    /\ f_responses' = Append(f_responses, [status |-> NetworkError, body |-> EmptyStr])
    /\ UNCHANGED <<f_retryCount, f_sleeps>>

\* sleep(delay) is over: return fetchWithHTTP(url, retryCount + 1, options).
FetchRetry ==
    /\ f_pc = "sleep"
    /\ f_pc' = "call"
    /\ f_retryCount' = f_retryCount + 1
    /\ UNCHANGED <<f_requests, f_sleeps, f_responses, f_return>>

(***************************************************************************)
(* SpecCheerio: the CheerioCrawler variant (main.js 9-233).  Up to         *)
(* maxConcurrency request handlers run at once; a handler runs without     *)
(* interruption from one await to the next, so each action below is the    *)
(* code between two awaits of one handler.                                 *)
(***************************************************************************)
MaxConcurrency == 3
MaxWantedC == 2
MaxPagesC == 2

\* product_url: null
NoUrl == "null"

NoProduct == [name |-> "none", url |-> NoUrl]

\* The site: what each listing URL serves.  products is what
\* extractFromNextData finds in __NEXT_DATA__, links the hrefs of the product
\* anchors, next the href of the next-page button.
Site ==
    [L1 |-> [products |-> <<[name |-> "A", url |-> "uA"], [name |-> "B", url |-> "uB"]>>,
             links |-> <<>>, next |-> "L1p2"],
     L1p2 |-> [products |-> <<[name |-> "C", url |-> "uC"], [name |-> "N", url |-> NoUrl]>>,
               links |-> <<>>, next |-> NoUrl],
     L2 |-> [products |-> <<[name |-> "B", url |-> "uB"], [name |-> "D", url |-> "uD"]>>,
             links |-> <<>>, next |-> NoUrl],
     L3 |-> [products |-> <<>>, links |-> <<"uA", "uE", "uE">>, next |-> NoUrl]]

StartUrlSets == {{"L1"}, {"L2"}, {"L3"}, {"L1", "L2"}, {"L1", "L3"}, {"L2", "L3"}}

\* What the first product of a detail page's __NEXT_DATA__ can be: nothing,
\* or a product whose url field is missing, or some product with a url.
DetailData ==
    {NoProduct, [name |-> "X", url |-> NoUrl], [name |-> "A", url |-> "uA"]}

RECURSIVE SeqFilterNew(_, _)
\* The elements of seq that are not in seen, each once, in order
\* (findProductLinks: push and seenUrls.add unless seenUrls.has).
SeqFilterNew(seq, seen) ==
    IF seq = <<>> THEN <<>>
    ELSE IF Head(seq) = NoUrl \/ Head(seq) \in seen THEN SeqFilterNew(Tail(seq), seen)
    ELSE <<Head(seq)>> \o SeqFilterNew(Tail(seq), seen \cup {Head(seq)})

RECURSIVE DedupeFilter(_, _)
\* products.filter(p => { if (!url || seenUrls.has(url)) return false;
\*                        seenUrls.add(url); return true; })
DedupeFilter(products, seen) ==
    IF products = <<>> THEN <<>>
    ELSE IF Head(products).url = NoUrl \/ Head(products).url \in seen
        THEN DedupeFilter(Tail(products), seen)
    ELSE <<Head(products)>> \o DedupeFilter(Tail(products), seen \cup {Head(products).url})

SeqRange(seq) == {seq[i] : i \in DOMAIN seq}

\* seq.slice(0, Math.max(0, n))
Slice0(seq, n) == SubSeq(seq, 1, IF n < 0 THEN 0 ELSE IF n > Len(seq) THEN Len(seq) ELSE n)

\* The end of a handler: nothing to await, no effect.
Finished == [task |-> <<>>, push |-> <<>>, enq |-> <<>>]

\* The tail of the LIST handler: enqueue the next page or return.
ListNextPage(task, saved) ==
    IF saved < c_cfg.wanted /\ task.pageNo < c_cfg.maxPages /\ Site[task.url].next # NoUrl
    THEN [task |-> <<[task EXCEPT !.pc = "nextEnqueued"]>>,
          push |-> <<>>,
          enq |-> <<[label |-> "LIST", url |-> Site[task.url].next,
                     pageNo |-> task.pageNo + 1, product |-> NoProduct]>>]
    ELSE Finished

RECURSIVE ListProductLoop(_, _)
\* for (const product of toPush): run to the next await.  task.prods is
\* the part of toPush not yet handled.
ListProductLoop(task, saved) ==
    IF task.prods = <<>> THEN ListNextPage(task, saved)
    ELSE LET product == Head(task.prods)
         IN IF c_cfg.extractDetails /\ product.url # NoUrl /\ product.url # task.url
            THEN IF saved < c_cfg.wanted
                 THEN [task |-> <<[task EXCEPT !.pc = "detailEnqueued"]>>,
                       push |-> <<>>,
                       enq |-> <<[label |-> "DETAIL", url |-> product.url,
                                  pageNo |-> 1, product |-> product]>>]
                 ELSE ListProductLoop([task EXCEPT !.prods = Tail(task.prods)], saved)
            ELSE [task |-> <<[task EXCEPT !.pc = "productPushed"]>>,
                  push |-> <<[name |-> product.name, url |-> product.url, via |-> "LIST"]>>,
                  enq |-> <<>>]

\* const remaining = RESULTS_WANTED - saved;
\* const toPush = products.slice(0, Math.max(0, remaining));
ListToPush(products, saved) == Slice0(products, c_cfg.wanted - saved)

\* From the dedupe filter to the next await.
ListAfterLinks(task, products, saved, seen) ==
    LET kept == IF c_cfg.dedupe THEN DedupeFilter(products, seen) ELSE products
    IN [r |-> ListProductLoop([task EXCEPT !.prods = ListToPush(kept, saved)], saved),
        seen |-> IF c_cfg.dedupe THEN seen \cup {p.url : p \in SeqRange(kept)} ELSE seen]

CheerioInit ==
    /\ c_cfg \in [wanted : 1..MaxWantedC, maxPages : 1..MaxPagesC,
                  extractDetails : BOOLEAN, dedupe : BOOLEAN, start : StartUrlSets]
    /\ c_saved = 0
    /\ c_seenUrls = {}
    /\ c_dataset = <<>>
    /\ c_queue = {[label |-> "LIST", url |-> u, pageNo |-> 1, product |-> NoProduct] :
                     u \in c_cfg.start}
    /\ c_known = c_cfg.start
    /\ c_running = {}

CheerioIdle ==
    /\ c_cfg = [wanted |-> 0]
    /\ c_saved = 0
    /\ c_seenUrls = {}
    /\ c_dataset = <<>>
    /\ c_queue = {}
    /\ c_known = {}
    /\ c_running = {}

\* The effects of one stretch of handler code: the handler t is replaced by
\* its continuation (or leaves), a record is pushed, a request is enqueued.
CheerioStep(old, r, queue) ==
    /\ c_running' = (c_running \ old) \cup SeqRange(r.task)
    /\ c_dataset' = c_dataset \o r.push
    /\ LET fresh == {q \in SeqRange(r.enq) : q.url \notin c_known}
       IN /\ c_queue' = queue \cup fresh
          /\ c_known' = c_known \cup {q.url : q \in fresh}

\* The crawler starts the handler of a LIST request: main.js 156-204 up to
\* the first await.
ListStart ==
    /\ Cardinality(c_running) < MaxConcurrency
    /\ \E req \in c_queue :
        /\ req.label = "LIST"
        /\ LET page == Site[req.url]
               task == [label |-> "LIST", url |-> req.url, pageNo |-> req.pageNo,
                        product |-> NoProduct, pc |-> "start", links |-> <<>>,
                        prods |-> <<>>]
               links == IF page.products = <<>>
                        THEN SeqFilterNew(page.links, c_seenUrls) ELSE <<>>
               seen1 == c_seenUrls \cup SeqRange(links)
               toEnqueue == Slice0(links, c_cfg.wanted - c_saved)
           IN IF toEnqueue # <<>>
              THEN /\ CheerioStep({}, [task |-> <<[task EXCEPT !.pc = "linkPushed",
                                                               !.links = toEnqueue]>>,
                                       push |-> <<[name |-> "null", url |-> Head(toEnqueue),
                                                   via |-> "LINK"]>>,
                                       enq |-> <<>>], c_queue \ {req})
                   /\ c_seenUrls' = seen1
              ELSE LET a == ListAfterLinks(task, page.products, c_saved, seen1)
                   IN /\ CheerioStep({}, a.r, c_queue \ {req})
                      /\ c_seenUrls' = a.seen
    /\ UNCHANGED <<c_cfg, c_saved>>

\* await Dataset.pushData({product_url: link, ...}) is over: saved++, then
\* the next link, or on to the dedupe filter and what follows it.
ListLinkPushed ==
    \E t \in c_running :
        /\ t.pc = "linkPushed"
        /\ c_saved' = c_saved + 1
        /\ LET rest == Tail(t.links)
           IN IF rest # <<>>
              THEN /\ CheerioStep({t}, [task |-> <<[t EXCEPT !.links = rest]>>,
                                        push |-> <<[name |-> "null", url |-> Head(rest),
                                                    via |-> "LINK"]>>,
                                        enq |-> <<>>], c_queue)
                   /\ UNCHANGED c_seenUrls
              ELSE LET a == ListAfterLinks([t EXCEPT !.links = <<>>], <<>>,
                                           c_saved + 1, c_seenUrls)
                   IN /\ CheerioStep({t}, a.r, c_queue)
                      /\ c_seenUrls' = a.seen
        /\ UNCHANGED c_cfg

\* await enqueueLinks({.. label: 'DETAIL' ..}) is over: next product.
ListDetailEnqueued ==
    \E t \in c_running :
        /\ t.pc = "detailEnqueued"
        /\ CheerioStep({t}, ListProductLoop([t EXCEPT !.prods = Tail(t.prods)], c_saved),
                       c_queue)
        /\ UNCHANGED <<c_cfg, c_saved, c_seenUrls>>

\* await Dataset.pushData(enrichedProduct) is over: saved++, next product.
ListProductPushed ==
    \E t \in c_running :
        /\ t.pc = "productPushed"
        /\ c_saved' = c_saved + 1
        /\ CheerioStep({t}, ListProductLoop([t EXCEPT !.prods = Tail(t.prods)], c_saved + 1),
                       c_queue)
        /\ UNCHANGED <<c_cfg, c_seenUrls>>

\* await enqueueLinks({.. label: 'LIST' ..}) is over: the handler returns.
ListNextEnqueued ==
    \E t \in c_running :
        /\ t.pc = "nextEnqueued"
        /\ CheerioStep({t}, Finished, c_queue)
        /\ UNCHANGED <<c_cfg, c_saved, c_seenUrls>>

\* The crawler starts the handler of a DETAIL request: it returns at once
\* when saved >= RESULTS_WANTED, else it awaits extractProductDetails.
DetailStart ==
    /\ Cardinality(c_running) < MaxConcurrency
    /\ \E req \in c_queue :
        /\ req.label = "DETAIL"
        /\ IF c_saved >= c_cfg.wanted
           THEN CheerioStep({}, Finished, c_queue \ {req})
           ELSE CheerioStep({}, [task |-> <<[label |-> "DETAIL", url |-> req.url,
                                            pageNo |-> req.pageNo, product |-> req.product,
                                            pc |-> "fetching", links |-> <<>>,
                                            prods |-> <<>>]>>,
                                 push |-> <<>>, enq |-> <<>>], c_queue \ {req})
    /\ UNCHANGED <<c_cfg, c_saved, c_seenUrls>>

\* extractProductDetails: { ...product, ...nextProducts[0] } when the page
\* has __NEXT_DATA__ products, else the product as it is.
ExtractProductDetailsC(product, data) ==
    IF data = NoProduct THEN product ELSE data

\* await extractProductDetails(..) is over: Dataset.pushData(enriched).
DetailFetched ==
    \E t \in c_running, data \in DetailData :
        /\ t.pc = "fetching"
        /\ LET enriched == ExtractProductDetailsC(t.product, data)
           IN CheerioStep({t}, [task |-> <<[t EXCEPT !.pc = "detailPushed"]>>,
                                push |-> <<[name |-> enriched.name, url |-> enriched.url,
                                            via |-> "DETAIL"]>>,
                                enq |-> <<>>], c_queue)
        /\ UNCHANGED <<c_cfg, c_saved, c_seenUrls>>

\* await Dataset.pushData(enriched) is over: saved++.
DetailPushed ==
    \E t \in c_running :
        /\ t.pc = "detailPushed"
        /\ c_saved' = c_saved + 1
        /\ CheerioStep({t}, Finished, c_queue)
        /\ UNCHANGED <<c_cfg, c_seenUrls>>

(***************************************************************************)
(* The hybrid pipeline (main.js 286-1916): strings, URLs and prices.       *)
(*                                                                         *)
(* A string is the sequence of its pieces.  A piece is one character, or   *)
(* one of the fixed parts of a URL listed in UrlParts, which the code      *)
(* looks for with its regular expressions.                                 *)
(***************************************************************************)
Host == "https://www.instacart.com"

UrlParts ==
    {Host, "/store/", "/products/", "/categories/", "/",
     "?page=", "?retailerSlug=", "?retailer=", "#"}

Digits == <<"0", "1", "2", "3", "4", "5", "6", "7", "8", "9">>
LowerCase ==
    <<"a", "b", "c", "d", "e", "f", "g", "h", "i", "j", "k", "l", "m", "n",
      "o", "p", "q", "r", "s", "t", "u", "v", "w", "x", "y", "z">>
UpperCase ==
    <<"A", "B", "C", "D", "E", "F", "G", "H", "I", "J", "K", "L", "M", "N",
      "O", "P", "Q", "R", "S", "T", "U", "V", "W", "X", "Y", "Z">>

IsDigit(c) == \E i \in DOMAIN Digits : Digits[i] = c
DigitValue(c) == (CHOOSE i \in DOMAIN Digits : Digits[i] = c) - 1

\* c.toUpperCase() and c.toLowerCase() of one character
ToUpper(c) ==
    IF \E i \in DOMAIN LowerCase : LowerCase[i] = c
    THEN UpperCase[CHOOSE i \in DOMAIN LowerCase : LowerCase[i] = c] ELSE c
ToLower(c) ==
    IF \E i \in DOMAIN UpperCase : UpperCase[i] = c
    THEN LowerCase[CHOOSE i \in DOMAIN UpperCase : UpperCase[i] = c] ELSE c

\* The least element of a non-empty set of numbers.
Least(numbers) == CHOOSE n \in numbers : \A m \in numbers : n <= m

\* The longest prefix of seq whose pieces are all in keep.
TakeIn(seq, keep) ==
    LET others == {i \in DOMAIN seq : seq[i] \notin keep}
    IN IF others = {} THEN seq ELSE SubSeq(seq, 1, Least(others) - 1)

\* The longest prefix of seq with no piece in stop.
TakeUntil(seq, stop) ==
    LET stops == {i \in DOMAIN seq : seq[i] \in stop}
    IN IF stops = {} THEN seq ELSE SubSeq(seq, 1, Least(stops) - 1)

DigitSet == {Digits[i] : i \in DOMAIN Digits}

\* What follows the first occurrence of part in seq, up to the next URL
\* part: the capture of /part([^\/?#]+)/ ; <<>> when there is no match.
AfterPart(seq, part) ==
    LET found == {i \in DOMAIN seq : seq[i] = part}
    IN IF found = {} THEN <<>>
       ELSE TakeUntil(SubSeq(seq, Least(found) + 1, Len(seq)), UrlParts)

\* The path of a URL: what precedes the query string and the fragment.
Pathname(seq) ==
    TakeUntil(seq, {"?page=", "?retailerSlug=", "?retailer=", "#"})

\* searchParams.get('retailerSlug') || searchParams.get('retailer')
RetailerParam(seq) ==
    IF AfterPart(seq, "?retailerSlug=") # <<>> THEN AfterPart(seq, "?retailerSlug=")
    ELSE AfterPart(seq, "?retailer=")

\* s.charAt(0).toUpperCase() + s.slice(1).toLowerCase()
Capitalize(seq) ==
    <<ToUpper(Head(seq))>> \o [i \in 1..(Len(seq) - 1) |-> ToLower(seq[i + 1])]

\* extractRetailerFromUrl
extractRetailerFromUrl(url) ==
    IF Falsy(url) THEN Instacart
    ELSE LET storeMatch == AfterPart(Pathname(url.s), "/store/")
             retailerParam == RetailerParam(url.s)
         IN IF storeMatch # <<>> THEN Str(Capitalize(storeMatch))
            ELSE IF retailerParam # <<>> THEN Str(Capitalize(retailerParam))
            ELSE Instacart

\* extractRetailerSlugFromUrl
extractRetailerSlugFromUrl(url) ==
    IF Falsy(url) THEN Null
    ELSE LET storeMatch == AfterPart(Pathname(url.s), "/store/")
             retailerParam == RetailerParam(url.s)
         IN IF storeMatch # <<>> THEN Str(storeMatch)
            ELSE IF retailerParam # <<>> THEN Str(retailerParam)
            ELSE Null

\* extractProductIdFromUrl
extractProductIdFromUrl(url) ==
    IF Falsy(url) THEN Null
    ELSE LET match == AfterPart(Pathname(url.s), "/products/")
         IN IF match # <<>> THEN Str(match) ELSE Null

\* `https://www.instacart.com/products/${id}`
ProductsUrl(id) == Str(<<Host, "/products/">> \o id.s)

\* `https://www.instacart.com/store/${storeSlug}/products/${productId}`
StoreProductsUrl(slug, id) == Str(<<Host, "/store/">> \o slug.s \o <<"/products/">> \o id.s)

\* toAbs(href, base) of an absolute href (every href served is absolute)
toAbs(href, base) == IF href.k = "string" /\ href.s # <<>> /\ Head(href.s) = Host
                     THEN href ELSE Null

RECURSIVE DigitsToNat(_)
DigitsToNat(ds) ==
    IF ds = <<>> THEN 0
    ELSE 10 * DigitsToNat(SubSeq(ds, 1, Len(ds) - 1)) + DigitValue(ds[Len(ds)])

\* parseFloat of a string of digits and points: the digits before the
\* first point and those between it and the next one; NaN without a digit.
ParseFloat(chars) ==
    LET int == TakeIn(chars, DigitSet)
        rest == SubSeq(chars, Len(int) + 1, Len(chars))
        frac == IF rest # <<>> /\ Head(rest) = "." THEN TakeIn(Tail(rest), DigitSet)
                ELSE <<>>
    IN IF int = <<>> /\ frac = <<>> THEN NaN
       ELSE Dec(DigitsToNat(int \o frac), Len(frac))

\* parsePrice (main.js 801-807)
parsePrice(priceStr) ==
    IF Falsy(priceStr) THEN Null
    ELSE IF priceStr.k = "number" THEN priceStr
    ELSE IF priceStr.k # "string" THEN Null
    ELSE LET cleaned == SelectSeq(priceStr.s, LAMBDA c : IsDigit(c) \/ c = ".")
             parsed == ParseFloat(cleaned)
         IN IF parsed = NaN THEN Null ELSE parsed

(***************************************************************************)
(* Pages.  A page is what cheerio finds in a response body:                *)
(*   script  - script#node-apollo-state is present                         *)
(*   rawLen  - the length of its raw payload                               *)
(*   json    - the payload, once URL-decoded and entity-decoded, is a JSON *)
(*             object                                                      *)
(*   graph   - the entries of that object, in key order                    *)
(*   matches - the elements the five selectors of extractFromHTML match,   *)
(*             in selector order                                           *)
(*   buildId - the buildId of script#__NEXT_DATA__                         *)
(* The graphs served hold entity entries only: no TaxonomyProducts or      *)
(* Items: container and no ROOT_QUERY.                                     *)
(***************************************************************************)
NodeProps ==
    {"id", "productId", "product_id", "legacyId", "sku", "name", "title",
     "displayName", "price", "currentPrice", "pricing.price", "priceString",
     "originalPrice", "wasPrice", "pricing.originalPrice", "image.url",
     "imageUrl", "primaryImage.url", "thumbnail", "url", "permalink", "link",
     "size", "packageSize", "unitSize", "brand", "brandName", "inStock",
     "availability.status", "isAvailable", "__typename"}

EmptyNode == [p \in NodeProps |-> Undef]

MinApolloLength == 100

ApolloGraphql == Str(<<"apollo_graphql">>)
HtmlParsing == Str(<<"html_parsing">>)

\* a || b || ... || null over a sequence of values
RECURSIVE OrChain(_)
OrChain(vs) ==
    IF vs = <<>> THEN Null
    ELSE IF Truthy(Head(vs)) THEN Head(vs)
    ELSE OrChain(Tail(vs))

\* The decimal digits of a natural number.
RECURSIVE NatPieces(_)
NatPieces(n) ==
    IF n < 10 THEN <<Digits[n + 1]>> ELSE NatPieces(n \div 10) \o <<Digits[(n % 10) + 1]>>

\* The pieces a template literal gives for a string or a whole number.
TemplatePieces(v) == IF v.k = "string" THEN v.s ELSE NatPieces(v.n)

\* cleanImageUrl: a trailing comma and a srcset descriptor are removed.
SrcsetDescriptors == {" 2x", " 197w", " 394w"}
DropTrailingComma(seq) ==
    IF seq # <<>> /\ seq[Len(seq)] = "," THEN SubSeq(seq, 1, Len(seq) - 1) ELSE seq
cleanImageUrl(url) ==
    IF Falsy(url) THEN Null
    ELSE LET cleaned ==
                 DropTrailingComma(TakeUntil(DropTrailingComma(url.s), SrcsetDescriptors))
         IN IF cleaned = <<>> THEN Null ELSE Str(cleaned)

\* extractApolloState: the parsed graph, or NullObj
extractApolloState(page) ==
    IF ~page.script THEN NullObj
    ELSE IF page.rawLen < MinApolloLength THEN NullObj
    ELSE IF ~page.json THEN NullObj
    ELSE [null |-> FALSE, entries |-> page.graph]

\* extractProductFields (main.js 752-796)
extractProductFields(product, baseUrl, now) ==
    LET id == OrChain(<<product["id"], product["productId"], product["product_id"],
                        product["legacyId"], product["sku"]>>)
        name == OrChain(<<product["name"], product["title"], product["displayName"]>>)
        price == OrChain(<<product["price"], product["currentPrice"],
                           product["pricing.price"], product["priceString"]>>)
        originalPrice == OrChain(<<product["originalPrice"], product["wasPrice"],
                                   product["pricing.originalPrice"]>>)
        imageUrl == OrChain(<<product["image.url"], product["imageUrl"],
                              product["primaryImage.url"], product["thumbnail"]>>)
        productUrl ==
            OrChain(<<product["url"], product["permalink"], product["link"],
                      IF Truthy(product["legacyId"])
                      THEN Str(<<Host, "/store/", "i", "t", "e", "m", "s", "/",
                                 "i", "t", "e", "m", "_">>
                               \o TemplatePieces(product["legacyId"]))
                      ELSE Null,
                      IF Truthy(id) THEN ProductsUrl(Str(TemplatePieces(id))) ELSE Null>>)
        inStock == /\ product["inStock"] # False
                   /\ product["availability.status"] # Str(<<"out_of_stock">>)
                   /\ product["isAvailable"] # False
    IN [product_id |-> id,
        name |-> name,
        brand |-> OrChain(<<product["brand"], product["brandName"]>>),
        price |-> parsePrice(price),
        original_price |-> parsePrice(originalPrice),
        size |-> OrChain(<<product["size"], product["packageSize"], product["unitSize"]>>),
        image_url |-> IF Truthy(imageUrl) THEN cleanImageUrl(toAbs(imageUrl, baseUrl))
                      ELSE Null,
        product_url |-> IF Truthy(productUrl) THEN toAbs(productUrl, baseUrl) ELSE Null,
        in_stock |-> Bool(inStock),
        store |-> extractRetailerFromUrl(Or(productUrl, baseUrl)),
        store_slug |-> extractRetailerSlugFromUrl(Or(productUrl, baseUrl)),
        timestamp |-> IsoTime(now),
        extraction_method |-> ApolloGraphql,
        unit_price |-> Undef, currency |-> Undef, category |-> Undef,
        source_url |-> Undef, zipcode |-> Undef,
        detail_extraction_method |-> Undef, enriched_at |-> Undef]

\* The test of extractProductsFromApollo for a directly keyed entity.
IsEntityEntry(entry) ==
    \/ entry.key[1] \in {"Product:", "Item:"}
    \/ entry.value["__typename"] \in {Str(<<"Product">>), Str(<<"Item">>)}

\* extractProductsFromApollo on a graph of entity entries
RECURSIVE extractProductsFromApollo(_, _, _)
extractProductsFromApollo(entries, baseUrl, now) ==
    IF entries = <<>> THEN <<>>
    ELSE LET product == extractProductFields(Head(entries).value, baseUrl, now)
             rest == extractProductsFromApollo(Tail(entries), baseUrl, now)
         IN IF IsEntityEntry(Head(entries))
               /\ (Truthy(product["name"]) \/ Truthy(product["product_id"]))
            THEN <<product>> \o rest ELSE rest

\* name.toLowerCase()
LowerName(name) == [i \in DOMAIN name.s |-> ToLower(name.s[i])]

\* The selector loop of extractFromHTML: seen is the set of URLs met so far.
RECURSIVE HtmlCandidates(_, _, _, _)
HtmlCandidates(matches, seen, baseUrl, now) ==
    IF matches = <<>> THEN <<>>
    ELSE LET el == Head(matches)
             fullUrl == IF Truthy(el.href) THEN toAbs(el.href, baseUrl) ELSE Null
             imgSrc == cleanImageUrl(el.img)
             product ==
                 [name |-> el.name,
                  price |-> parsePrice(el.priceText),
                  image_url |-> IF Truthy(imgSrc) THEN cleanImageUrl(toAbs(imgSrc, baseUrl))
                                ELSE Null,
                  product_url |-> fullUrl,
                  store |-> Instacart,
                  in_stock |-> True,
                  timestamp |-> IsoTime(now),
                  extraction_method |-> HtmlParsing,
                  product_id |-> Undef, brand |-> Undef, original_price |-> Undef,
                  unit_price |-> Undef, size |-> Undef, store_slug |-> Undef,
                  currency |-> Undef, category |-> Undef, source_url |-> Undef,
                  zipcode |-> Undef, detail_extraction_method |-> Undef,
                  enriched_at |-> Undef]
         IN IF Truthy(fullUrl) /\ fullUrl \in seen
            THEN HtmlCandidates(Tail(matches), seen, baseUrl, now)
            ELSE (IF Truthy(el.name) /\ Len(el.name.s) > 2 /\ Len(el.name.s) < 200
                  THEN <<product>> ELSE <<>>)
                 \o HtmlCandidates(Tail(matches),
                                   IF Truthy(fullUrl) THEN seen \cup {fullUrl} ELSE seen,
                                   baseUrl, now)

\* The "dedupe by name" loop of extractFromHTML.
RECURSIVE UniqueByName(_, _)
UniqueByName(products, seenNames) ==
    IF products = <<>> THEN <<>>
    ELSE LET key == LowerName(Head(products)["name"])
         IN IF key # <<>> /\ key \notin seenNames
            THEN <<Head(products)>> \o UniqueByName(Tail(products), seenNames \cup {key})
            ELSE UniqueByName(Tail(products), seenNames)

\* extractFromHTML (main.js 866-943)
extractFromHTML(page, baseUrl, now) ==
    UniqueByName(HtmlCandidates(page.matches, {}, baseUrl, now), {})

\* The records the graph of a page gives: <<>> when it cannot be parsed.
ApolloProducts(page, url, now) ==
    LET apolloData == extractApolloState(page)
    IN IF apolloData = NullObj THEN <<>>
       ELSE extractProductsFromApollo(apolloData.entries, url, now)

\* A scrapeUrl that adds the HTML records whatever the graph gave.
ScrapeExtractBoth(page, url, now) ==
    ApolloProducts(page, url, now) \o extractFromHTML(page, url, now)

\* The two extraction tiers of scrapeUrl (main.js 1449-1460).
ScrapeExtract(page, url, now) ==
    LET products == ApolloProducts(page, url, now)
    IN IF Len(products) = 0 THEN extractFromHTML(page, url, now) ELSE products

\* The closing loop of scrapeUrl (main.js 1462-1467).
RECURSIVE ScrapeFinish(_, _)
ScrapeFinish(products, url) ==
    IF products = <<>> THEN <<>>
    ELSE LET product == Head(products)
         IN <<[product EXCEPT
                  !["source_url"] = IF Falsy(@) THEN url ELSE @,
                  !["store_slug"] =
                      IF Falsy(@)
                      THEN extractRetailerSlugFromUrl(Or(product["product_url"], url))
                      ELSE @]>>
            \o ScrapeFinish(Tail(products), url)

\* Fixed delay between requests (main.js 304).
DELAY_MS_VALUE == 2000

\* A scrapeUrl that sleeps before the request of every page.
ScrapeDelayAlways(pageNo) == <<DELAY_MS_VALUE>>

\* The sleeps of scrapeUrl before its request (main.js 1413-1416): the
\* arguments of sleep, which waits that long and up to 500 ms more (325).
ScrapeDelay(pageNo) == IF pageNo > 1 THEN <<DELAY_MS_VALUE>> ELSE <<>>

\* A scrapeUrl that returns a stub record for a page it could not fetch.
ScrapeUnfetchedStub == <<ListingRecord>>

\* What scrapeUrl returns when neither fetch gave HTML: the empty products
\* (main.js 1433-1436); the same when anything in it throws (1468-1472).
ScrapeUnfetched == <<>>

\* What scrapeUrl returns for a page it could fetch.
ScrapeProducts(page, url, now) == ScrapeFinish(ScrapeExtract(page, url, now), url)

(***************************************************************************)
(* The pages and start URLs of the pipeline runs.                          *)
(***************************************************************************)
MaxWanted == 2
MaxPages == 2
\* The values of detailConcurrency the runs are started with.
DetailConcurrencies == {1, 2}

Zipcode == Str(<<"9", "4", "1", "0", "5">>)
Acme == Str(<<"A", "c", "m", "e">>)
Apple == Str(<<"A", "p", "p", "l", "e">>)
Kiwi == Str(<<"K", "i", "w", "i">>)
Milk == Str(<<"M", "i", "l", "k">>)
Eggs == Str(<<"E", "g", "g", "s">>)
BuildId == Str(<<"b", "1">>)

UrlStore ==
    Str(<<Host, "/store/", "s", "a", "f", "e", "w", "a", "y", "/categories/", "3", "1", "6">>)
UrlGeneric == Str(<<Host, "/categories/", "3", "1", "6">>)

\* initial: startUrls followed by the default startUrl (main.js 329-334)
StartLists == {<<UrlStore>>, <<UrlGeneric, UrlStore>>}

NodeItem1 ==
    [EmptyNode EXCEPT !["id"] = Str(<<"1">>), !["name"] = Apple,
                      !["price"] = Str(<<"$", "3", ".", "4", "9">>)]
NodeItem2 == [EmptyNode EXCEPT !["id"] = Str(<<"2">>), !["name"] = Kiwi]
NodeProduct1 ==
    [EmptyNode EXCEPT !["id"] = Str(<<"1">>), !["name"] = Apple,
                      !["price"] = Dec(25, 1), !["brand"] = Acme]
NodeSku3 ==
    [EmptyNode EXCEPT !["sku"] = Str(<<"3">>), !["title"] = Milk,
                      !["priceString"] = Str(<<"$", "4">>), !["brandName"] = Acme,
                      !["__typename"] = Str(<<"Product">>), !["inStock"] = False]
NodeRetailer ==
    [EmptyNode EXCEPT !["id"] = Str(<<"7">>), !["name"] = Str(<<"S", "a", "f", "e", "w", "a", "y">>),
                      !["__typename"] = Str(<<"Retailer">>)]

ElEggs ==
    [href |-> ProductsUrl(Str(<<"9">>)), name |-> Eggs,
     priceText |-> Str(<<"$", "5", ".", "9", "9">>), img |-> Undef]
ElEggsUpper ==
    [href |-> Undef, name |-> Str(<<"E", "G", "G", "S">>), priceText |-> EmptyStr,
     img |-> Undef]
ElTea ==
    [href |-> Undef, name |-> Str(<<"T", "e", "a">>), priceText |-> EmptyStr,
     img |-> Str(<<Host, "/", "t", " 2x", ",">>)]
ElAd ==
    [href |-> Undef, name |-> Str(<<"A", "d">>), priceText |-> EmptyStr, img |-> Undef]

PageIds ==
    {"scenario", "branded", "noscript", "short", "malformed", "noproduct", "empty"}

Pages ==
    [id \in PageIds |->
        CASE id = "scenario" ->
                 [script |-> TRUE, rawLen |-> 100, json |-> TRUE,
                  graph |-> <<[key |-> <<"Item:", "1">>, value |-> NodeItem1],
                              [key |-> <<"Item:", "2">>, value |-> NodeItem2]>>,
                  matches |-> <<ElEggs>>, buildId |-> BuildId]
          [] id = "branded" ->
                 [script |-> TRUE, rawLen |-> 100, json |-> TRUE,
                  graph |-> <<[key |-> <<"Retailer:", "7">>, value |-> NodeRetailer],
                              [key |-> <<"Product:", "1">>, value |-> NodeProduct1],
                              [key |-> <<"Sku:", "3">>, value |-> NodeSku3]>>,
                  matches |-> <<>>, buildId |-> Undef]
          [] id = "noscript" ->
                 [script |-> FALSE, rawLen |-> 0, json |-> FALSE, graph |-> <<>>,
                  matches |-> <<ElEggs, ElEggs, ElAd, ElEggsUpper, ElTea>>,
                  buildId |-> Undef]
          [] id = "short" ->
                 [script |-> TRUE, rawLen |-> 99, json |-> TRUE,
                  graph |-> <<[key |-> <<"Item:", "1">>, value |-> NodeItem1]>>,
                  matches |-> <<ElEggs>>, buildId |-> Undef]
          [] id = "malformed" ->
                 [script |-> TRUE, rawLen |-> 100, json |-> FALSE, graph |-> <<>>,
                  matches |-> <<ElEggs>>, buildId |-> Undef]
          [] id = "noproduct" ->
                 [script |-> TRUE, rawLen |-> 100, json |-> TRUE,
                  graph |-> <<[key |-> <<"Retailer:", "7">>, value |-> NodeRetailer],
                              [key |-> <<"Item:", "0">>, value |-> EmptyNode]>>,
                  matches |-> <<ElEggs>>, buildId |-> Undef]
          [] OTHER ->
                 [script |-> FALSE, rawLen |-> 0, json |-> FALSE, graph |-> <<>>,
                  matches |-> <<>>, buildId |-> Undef]]

\* What a direct request, and the rendering of a page, can end with.
NoPage == "none"
HttpOutcomes == PageIds \cup {NoPage}
RenderOutcomes == {"scenario", NoPage}

(***************************************************************************)
(* The run of the pipeline: the listing loop, the enrichment pass and the  *)
(* run statistics.                                                         *)
(***************************************************************************)
SinkFields == AllFields \cup {"_enriched"}

\* What Dataset.pushData stores for a listing record.
Snapshot(product) ==
    [f \in SinkFields |-> IF f = "_enriched" THEN Undef ELSE product[f]]

\* { ...p, _enriched: true, enriched_at: p.enriched_at || now }
EnrichedSnapshot(product, now) ==
    [f \in SinkFields |->
        IF f = "_enriched" THEN True
        ELSE IF f = "enriched_at" THEN Or(product[f], IsoTime(now))
        ELSE product[f]]

\* product.product_id || product.product_url || product.name
ProductKey(product) == Or(Or(product["product_id"], product["product_url"]), product["name"])

\* currentPage === 1 ? url : `${url}?page=${currentPage}`
PageUrl(url, currentPage) ==
    IF currentPage = 1 THEN url ELSE Str(url.s \o <<"?page=">> \o NatPieces(currentPage))

\* A listing loop that handles the first record of a page only.
RECURSIVE ListingLoopFirstOnly(_, _, _, _, _)
ListingLoopFirstOnly(products, saved, seen, url, wanted) ==
    IF products = <<>> \/ saved >= wanted
    THEN [toSave |-> <<>>, saved |-> saved, seen |-> seen]
    ELSE [toSave |-> <<[Head(products) EXCEPT !["zipcode"] = Zipcode]>>,
          saved |-> saved + 1,
          seen |-> seen \cup {ProductKey(Head(products))}]

\* The body of the loop over the products of a page (main.js 1811-1830):
\* the records to save, and saved and seenProductIds after the loop.  dedupe
\* is the constant true (main.js 303).
RECURSIVE ListingLoop(_, _, _, _, _)
ListingLoop(products, saved, seen, url, wanted) ==
    IF products = <<>> \/ saved >= wanted
    THEN [toSave |-> <<>>, saved |-> saved, seen |-> seen]
    ELSE LET product == Head(products)
             productKey == ProductKey(product)
             kept ==
                 [product EXCEPT
                     !["zipcode"] = Zipcode,
                     !["store"] =
                         IF Falsy(@) \/ @ = Instacart
                         THEN extractRetailerFromUrl(Or(product["product_url"], url))
                         ELSE @,
                     !["store_slug"] =
                         IF Falsy(@)
                         THEN extractRetailerSlugFromUrl(Or(product["product_url"], url))
                         ELSE @]
         IN IF Truthy(productKey) /\ productKey \in seen
            THEN ListingLoop(Tail(products), saved, seen, url, wanted)
            ELSE LET rest == ListingLoop(Tail(products), saved + 1,
                                         IF Truthy(productKey) THEN seen \cup {productKey}
                                         ELSE seen,
                                         url, wanted)
                 IN [rest EXCEPT !.toSave = <<kept>> \o @]

\* buildProductUrl (main.js 947-961)
buildProductUrl(product, baseUrl) ==
    LET productId == Or(product["product_id"], extractProductIdFromUrl(product["product_url"]))
        storeSlug == Or(Or(product["store_slug"],
                           extractRetailerSlugFromUrl(product["product_url"])),
                        extractRetailerSlugFromUrl(baseUrl))
    IN IF Truthy(storeSlug) /\ Truthy(productId)
           THEN StoreProductsUrl(Str(TemplatePieces(storeSlug)), Str(TemplatePieces(productId)))
       ELSE IF Truthy(productId) THEN ProductsUrl(Str(TemplatePieces(productId)))
       ELSE IF Truthy(product["product_url"]) THEN toAbs(product["product_url"], baseUrl)
       ELSE Null

\* !p.price || !p.brand
NeedsDetails(product) == Falsy(product["price"]) \/ Falsy(product["brand"])

\* The positions of allProducts that satisfy NeedsDetails, in order.
NeedingDetails(products) ==
    SelectSeq([i \in DOMAIN products |-> i], LAMBDA i : NeedsDetails(products[i]))

\* What fetchDetailForProductHTTP does to a product before its first
\* request (main.js 1480-1488).
DetailPrepare(product, baseUrl) ==
    LET productUrl == buildProductUrl(product, Or(baseUrl, product["source_url"]))
    IN IF productUrl = Null THEN product
       ELSE [product EXCEPT
                !["product_url"] = IF Falsy(@) THEN productUrl ELSE @,
                !["store_slug"] = IF Falsy(@) THEN extractRetailerSlugFromUrl(productUrl) ELSE @,
                !["store"] = IF Falsy(@) \/ @ = Instacart
                             THEN extractRetailerFromUrl(productUrl) ELSE @]

\* What the detail page of a product can hold: nothing usable, the
\* product's node with a price and a brand, or the product's bare node.
DetailOutcomes == {"none", "node_full", "node_bare"}

\* The detail record the extraction tiers give for a product.
DetailOf(outcome, product, productUrl, now) ==
    LET productId == Or(product["product_id"], extractProductIdFromUrl(product["product_url"]))
        bare == [EmptyNode EXCEPT !["id"] = productId, !["name"] = product["name"]]
        full == [bare EXCEPT !["price"] = Str(<<"$", "5", ".", "9", "9">>), !["brand"] = Acme]
    IN CASE outcome = "node_full" /\ Truthy(productId) ->
                extractProductFields(full, productUrl, now)
         [] outcome = "node_bare" /\ Truthy(productId) ->
                extractProductFields(bare, productUrl, now)
         [] OTHER -> NullObj

\* The buildId of the __NEXT_DATA__ of a detail page: none (the page was
\* not fetched, or has none), or that of a newer build.
BuildId2 == Str(<<"b", "2">>)
DetailBuildIds == {Undef, BuildId2}

\* A detail fetch that leaves the cached buildId alone.
DetailBuildIdKept(nextBuildId, buildId) == nextBuildId

\* if (nextDataFromHtml?.buildId && (!nextBuildId || nextBuildId !==
\* nextDataFromHtml.buildId)) nextBuildId = nextDataFromHtml.buildId
\* (main.js 1509-1512)
DetailBuildId(nextBuildId, buildId) ==
    IF Truthy(buildId) /\ (Falsy(nextBuildId) \/ nextBuildId # buildId) THEN buildId
    ELSE nextBuildId

\* What page.evaluate of the rendered detail page can return.
PlaywrightData ==
    {[price |-> Null, original_price |-> Null, brand |-> Null, unit_price |-> Null,
      store |-> Null],
     [price |-> Dec(299, 2), original_price |-> Null, brand |-> Null, unit_price |-> Null,
      store |-> Null],
     [price |-> Null, original_price |-> Null, brand |-> Acme, unit_price |-> Null,
      store |-> Null]}

\* The detail object built from it (main.js 1772-1778).
PlaywrightDetail(data) ==
    [f \in AllFields |-> IF f \in DOMAIN data THEN data[f] ELSE Undef]

PipeInit ==
    /\ p_cfg \in [wanted : 1..MaxWanted, maxPages : {1, MaxPages},
                  extractDetails : BOOLEAN, detailPlaywrightFallback : BOOLEAN,
                  detailConcurrency : DetailConcurrencies, initial : StartLists]
    /\ p_cfg.detailPlaywrightFallback => p_cfg.extractDetails
    /\ p_pc = "listing"
    /\ p_urlIdx = 1
    /\ p_currentPage = 1
    /\ p_saved = 0
    /\ p_seenProductIds = {}
    /\ p_allProducts = <<>>
    /\ p_sink = <<>>
    /\ p_usePlaywright = FALSE
    /\ p_nextBuildId = Null
    /\ p_now = 0
    /\ p_scrapes = 0
    /\ p_anyPage = FALSE
    /\ p_lastFetch = [escalated |-> FALSE, kinds |-> <<>>]
    /\ p_last = [page |-> NoPage, url |-> EmptyStr, at |-> 0, slept |-> <<>>,
                 products |-> <<>>]
    /\ p_need = <<>>
    /\ p_chunkStart = 0
    /\ p_pauses = <<>>
    /\ p_extracted = {}
    /\ p_batch = {}
    /\ p_inflight = {}
    /\ p_results = {}
    /\ p_updated = <<>>
    /\ p_stats = <<>>

\* The pipeline is not run.
PipeIdle ==
    /\ p_cfg = [wanted |-> 1, maxPages |-> 1, extractDetails |-> FALSE,
                detailPlaywrightFallback |-> FALSE, detailConcurrency |-> 1,
                initial |-> <<UrlStore>>]
    /\ p_pc = "idle"
    /\ p_urlIdx = 1
    /\ p_currentPage = 1
    /\ p_saved = 0
    /\ p_seenProductIds = {}
    /\ p_allProducts = <<>>
    /\ p_sink = <<>>
    /\ p_usePlaywright = FALSE
    /\ p_nextBuildId = Null
    /\ p_now = 0
    /\ p_scrapes = 0
    /\ p_anyPage = FALSE
    /\ p_lastFetch = [escalated |-> FALSE, kinds |-> <<>>]
    /\ p_last = [page |-> NoPage, url |-> EmptyStr, at |-> 0, slept |-> <<>>,
                 products |-> <<>>]
    /\ p_need = <<>>
    /\ p_chunkStart = 0
    /\ p_pauses = <<>>
    /\ p_extracted = {}
    /\ p_batch = {}
    /\ p_inflight = {}
    /\ p_results = {}
    /\ p_updated = <<>>
    /\ p_stats = <<>>

enrichVars ==
    <<p_need, p_chunkStart, p_pauses, p_batch, p_inflight, p_results, p_updated,
      p_extracted>>

\* One iteration of the listing loop (main.js 1800-1840) with the
\* scrapeUrl call it makes (1410-1475).
ScrapePage ==
    /\ p_pc = "listing"
    /\ p_urlIdx <= Len(p_cfg.initial)
    /\ p_currentPage <= p_cfg.maxPages /\ p_saved < p_cfg.wanted
    /\ \E http \in HttpOutcomes, render \in RenderOutcomes :
        LET url == p_cfg.initial[p_urlIdx]
            pageUrl == PageUrl(url, p_currentPage)
            escalate == http = NoPage
            served == IF escalate THEN render ELSE http
            products == IF served = NoPage THEN ScrapeUnfetched
                        ELSE ScrapeProducts(Pages[served], pageUrl, p_now)
            loop == ListingLoop(products, p_saved, p_seenProductIds, url, p_cfg.wanted)
        IN /\ ~escalate => render = NoPage
           /\ p_usePlaywright' = (p_usePlaywright \/ escalate)
           /\ p_lastFetch' = [escalated |-> p_usePlaywright,
                              kinds |-> IF escalate THEN <<"http", "render">>
                                        ELSE <<"http">>]
           /\ p_scrapes' = p_scrapes + 1
           /\ p_anyPage' = (p_anyPage \/ served # NoPage)
           /\ p_last' = [page |-> served, url |-> pageUrl, at |-> p_now,
                         slept |-> ScrapeDelay(p_currentPage),
                         products |-> products]
           /\ p_nextBuildId' =
                  IF served # NoPage /\ Truthy(Pages[served].buildId)
                  THEN Pages[served].buildId ELSE p_nextBuildId
           /\ IF Len(products) = 0
              THEN /\ p_urlIdx' = p_urlIdx + 1
                   /\ UNCHANGED <<p_currentPage, p_saved, p_seenProductIds,
                                  p_allProducts, p_sink>>
              ELSE /\ p_saved' = loop.saved
                   /\ p_seenProductIds' = loop.seen
                   /\ p_allProducts' = p_allProducts \o loop.toSave
                   /\ p_sink' = p_sink \o [i \in DOMAIN loop.toSave |->
                                              Snapshot(loop.toSave[i])]
                   /\ IF loop.saved >= p_cfg.wanted
                      THEN p_urlIdx' = p_urlIdx + 1 /\ UNCHANGED p_currentPage
                      ELSE p_currentPage' = p_currentPage + 1 /\ UNCHANGED p_urlIdx
    /\ p_now' = p_now + 1
    /\ UNCHANGED <<p_cfg, p_pc, p_stats, enrichVars>>

\* The while condition is false on entry for a start URL (main.js 1800).
SkipStartUrl ==
    /\ p_pc = "listing"
    /\ p_urlIdx <= Len(p_cfg.initial)
    /\ ~(p_currentPage <= p_cfg.maxPages /\ p_saved < p_cfg.wanted)
    /\ p_urlIdx' = p_urlIdx + 1
    /\ UNCHANGED <<p_cfg, p_pc, p_currentPage, p_saved, p_seenProductIds,
                   p_allProducts, p_sink, p_usePlaywright, p_nextBuildId, p_now,
                   p_scrapes, p_anyPage, p_lastFetch, p_last, p_stats, enrichVars>>

\* The loop over the start URLs has ended (main.js 1841-1848).
ListingDone ==
    /\ p_pc = "listing"
    /\ p_urlIdx > Len(p_cfg.initial)
    /\ IF p_cfg.extractDetails /\ NeedingDetails(p_allProducts) # <<>>
       THEN p_pc' = "details" /\ p_need' = NeedingDetails(p_allProducts)
       ELSE p_pc' = "stats" /\ UNCHANGED p_need
    /\ UNCHANGED <<p_cfg, p_urlIdx, p_currentPage, p_saved, p_seenProductIds,
                   p_allProducts, p_sink, p_usePlaywright, p_nextBuildId, p_now,
                   p_scrapes, p_anyPage, p_lastFetch, p_last, p_stats, p_chunkStart, p_pauses, p_batch,
                   p_extracted,
                   p_inflight, p_results, p_updated>>

\* The pause between two chunks (main.js 1553).
ChunkPauseMs == 400

\* A chunk that takes every product not yet fetched.
ChunkOfAll(chunkStart) == {k \in DOMAIN p_need : chunkStart < k}

\* The positions of p_need in the chunk that starts after chunkStart.
ChunkOf(chunkStart) ==
    {k \in DOMAIN p_need : chunkStart < k /\ k <= chunkStart + p_cfg.detailConcurrency}

\* The positions of a set, in increasing order.
RECURSIVE InOrder(_)
InOrder(positions) ==
    IF positions = {} THEN <<>>
    ELSE LET least == CHOOSE k \in positions : \A j \in positions : k <= j
         IN <<least>> \o InOrder(positions \ {least})

\* productsNeedingDetails.filter(p => !p.price || !p.brand)
Remaining(products) == SelectSeq(p_need, LAMBDA i : NeedsDetails(products[i]))

\* The "de-dupe updated products" loop (main.js 1867-1874).
RECURSIVE UniqueUpdated(_, _, _)
UniqueUpdated(updated, updatedKeys, products) ==
    IF updated = <<>> THEN <<>>
    ELSE LET key == ProductKey(products[Head(updated)])
         IN IF Falsy(key) \/ key \in updatedKeys
            THEN UniqueUpdated(Tail(updated), updatedKeys, products)
            ELSE <<Head(updated)>>
                 \o UniqueUpdated(Tail(updated), updatedKeys \cup {key}, products)

\* The enriched records are pushed and the enrichment pass ends
\* (main.js 1866-1883).
EmitEnriched(products, updated) ==
    /\ p_sink' = p_sink \o [j \in DOMAIN UniqueUpdated(updated, {}, products) |->
                               EnrichedSnapshot(
                                   products[UniqueUpdated(updated, {}, products)[j]], p_now)]
    /\ p_pc' = "stats"

\* Promise.all of a chunk has resolved (main.js 1548-1554); after the last
\* chunk fetchProductDetailsHTTP returns to the enrichment pass (1855-1864).
ChunkResolved(products, results) ==
    LET updated == p_updated \o [j \in DOMAIN InOrder(results) |->
                                    p_need[InOrder(results)[j]]]
        chunkStart == p_chunkStart + p_cfg.detailConcurrency
    IN /\ p_updated' = updated
       /\ p_chunkStart' = chunkStart
       /\ p_pauses' = IF chunkStart < Len(p_need) THEN Append(p_pauses, ChunkPauseMs)
                      ELSE p_pauses
       /\ p_batch' = {}
       /\ p_results' = {}
       /\ IF chunkStart < Len(p_need)
          THEN p_pc' = "details" /\ UNCHANGED p_sink
          ELSE IF p_cfg.detailPlaywrightFallback /\ Remaining(products) # <<>>
          THEN p_pc' = "playwright" /\ UNCHANGED p_sink
          ELSE EmitEnriched(products, updated)

\* DetailPrepare applied to the products at the given positions of p_need.
RECURSIVE PrepareChunk(_, _, _)
PrepareChunk(products, positions, baseUrl) ==
    IF positions = <<>> THEN products
    ELSE PrepareChunk([products EXCEPT ![p_need[Head(positions)]] = DetailPrepare(@, baseUrl)],
                      Tail(positions), baseUrl)

\* fetchProductDetailsHTTP starts a chunk: every fetchDetailForProductHTTP
\* of the chunk runs up to its first request (main.js 1544-1546, 1480-1504).
DetailChunkStart ==
    /\ p_pc = "details"
    /\ p_batch = {}
    /\ p_chunkStart < Len(p_need)
    /\ LET baseUrl == p_cfg.initial[1]
           chunk == ChunkOf(p_chunkStart)
           urlOf(k) == buildProductUrl(p_allProducts[p_need[k]],
                                       Or(baseUrl, p_allProducts[p_need[k]]["source_url"]))
           inflight == {[pos |-> k, url |-> urlOf(k)] : k \in {j \in chunk : urlOf(j) # Null}}
           prepared == PrepareChunk(p_allProducts, InOrder(chunk), baseUrl)
       IN /\ p_inflight' = inflight
          /\ p_allProducts' = prepared
          /\ IF inflight = {} THEN ChunkResolved(prepared, {})
             ELSE /\ p_batch' = chunk
                  /\ p_results' = {}
                  /\ UNCHANGED <<p_pc, p_sink, p_chunkStart, p_pauses, p_updated>>
    /\ p_now' = p_now + 1
    /\ UNCHANGED <<p_cfg, p_urlIdx, p_currentPage, p_saved, p_seenProductIds,
                   p_usePlaywright, p_nextBuildId, p_scrapes, p_anyPage, p_lastFetch, p_last,
                   p_stats, p_need, p_extracted>>

\* One fetchDetailForProductHTTP of the chunk gets its answers, caches the
\* buildId of the detail page and merges what it extracted
\* (main.js 1493-1536).
FetchDetailForProductHTTP ==
    /\ p_pc = "details"
    /\ \E req \in p_inflight, outcome \in DetailOutcomes, buildId \in DetailBuildIds :
        LET i == p_need[req.pos]
            detail == DetailOf(outcome, p_allProducts[i], req.url, p_now)
            merged == mergeProductDetails(p_allProducts[i], detail,
                                          IF detail = NullObj THEN Undef
                                          ELSE detail["extraction_method"], p_now)
            products == [p_allProducts EXCEPT ![i] = merged.target]
            results == IF merged.updated THEN p_results \cup {req.pos} ELSE p_results
        IN /\ p_allProducts' = products
           /\ p_nextBuildId' = DetailBuildId(p_nextBuildId, buildId)
           /\ p_inflight' = p_inflight \ {req}
           /\ IF p_inflight = {req} THEN ChunkResolved(products, results)
              ELSE /\ p_results' = results
                   /\ UNCHANGED <<p_pc, p_sink, p_chunkStart, p_pauses, p_batch, p_updated>>
    /\ p_lastFetch' = [escalated |-> p_usePlaywright, kinds |-> <<"http">>]
    /\ UNCHANGED <<p_cfg, p_urlIdx, p_currentPage, p_saved, p_seenProductIds,
                   p_usePlaywright, p_now, p_scrapes, p_anyPage, p_last,
                   p_stats, p_need, p_extracted>>

\* The requests of fetchProductDetailsBatch are built: a product without
\* product_url gets the URL of its request (main.js 1756-1764).
RECURSIVE PrepareRequests(_, _)
PrepareRequests(products, remaining) ==
    IF remaining = <<>> THEN products
    ELSE LET product == products[Head(remaining)]
             productUrl == buildProductUrl(product, product["source_url"])
         IN PrepareRequests(
                IF productUrl # Null /\ Falsy(product["product_url"])
                THEN [products EXCEPT ![Head(remaining)]["product_url"] = productUrl]
                ELSE products,
                Tail(remaining))

PlaywrightDetailMethod == Str(<<"playwright_detail">>)

\* fetchProductDetailsBatch(remaining) (main.js 1567-1790) and the end of
\* the enrichment pass.  extracted is the set of requests whose handler
\* stored data in extractedDataMap.  The first merge that updates a product
\* reaches updatedProducts.push, a name the function does not declare: the
\* loop ends in the catch, and the function returns every product it was
\* given.  The map is in completion order, so any updating entry can be
\* that first one.
FetchProductDetailsBatch ==
    /\ p_pc = "playwright"
    /\ LET remaining == Remaining(p_allProducts)
           urlOf(k) == buildProductUrl(p_allProducts[remaining[k]],
                                       p_allProducts[remaining[k]]["source_url"])
           prepared == PrepareRequests(p_allProducts, remaining)
           requests == {k \in DOMAIN remaining :
                           /\ urlOf(k) # Null
                           /\ \A j \in 1..(k - 1) : urlOf(j) # urlOf(k)}
       IN \E extracted \in SUBSET requests :
          \E data \in [extracted -> PlaywrightData] :
            LET merged(k) == mergeProductDetails(prepared[remaining[k]],
                                                 PlaywrightDetail(data[k]),
                                                 PlaywrightDetailMethod, p_now)
                hits == {k \in extracted : merged(k).updated}
            IN \E first \in IF hits = {} THEN {0} ELSE hits :
                LET products == IF first = 0 THEN prepared
                                ELSE [prepared EXCEPT ![remaining[first]] =
                                         merged(first).target]
                IN /\ p_allProducts' = products
                   /\ p_lastFetch' = IF requests = {} THEN p_lastFetch
                                     ELSE [escalated |-> TRUE, kinds |-> <<"render">>]
                   /\ p_extracted' = {[index |-> remaining[k], data |-> data[k]] :
                                          k \in extracted}
                   /\ p_updated' = p_updated \o remaining
                   /\ EmitEnriched(products, p_updated \o remaining)
    /\ p_usePlaywright' = TRUE
    /\ p_now' = p_now + 1
    /\ UNCHANGED <<p_cfg, p_urlIdx, p_currentPage, p_saved, p_seenProductIds,
                   p_nextBuildId, p_scrapes, p_anyPage, p_last, p_stats, p_need, p_chunkStart, p_pauses,
                   p_batch, p_inflight, p_results>>

\* [...new Set(values)]: the distinct values, in order of first occurrence
RECURSIVE Distinct(_)
Distinct(values) ==
    IF values = <<>> THEN <<>>
    ELSE LET init == Distinct(SubSeq(values, 1, Len(values) - 1))
             last == values[Len(values)]
         IN IF \E i \in DOMAIN init : init[i] = last THEN init ELSE Append(init, last)

\* Actor.setValue('STATS', stats) (main.js 1894-1906)
WriteStats ==
    /\ p_pc = "stats"
    /\ p_stats' = Append(p_stats,
           [total_products_saved |-> p_saved,
            target_results |-> p_cfg.wanted,
            pages_processed |-> p_currentPage,
            zipcode |-> Zipcode,
            used_playwright |-> p_usePlaywright,
            detail_concurrency |-> p_cfg.detailConcurrency,
            detail_playwright_fallback |-> p_cfg.detailPlaywrightFallback,
            next_build_id |-> p_nextBuildId,
            extraction_methods |->
                Distinct([i \in DOMAIN p_allProducts |->
                             p_allProducts[i]["extraction_method"]])])
    /\ p_pc' = "done"
    /\ UNCHANGED <<p_cfg, p_urlIdx, p_currentPage, p_saved, p_seenProductIds,
                   p_allProducts, p_sink, p_usePlaywright, p_nextBuildId, p_now,
                   p_scrapes, p_anyPage, p_lastFetch, p_last, enrichVars>>

(***************************************************************************)
(* SpecWalk: findProductArrays (main.js 713-747) on a state graph, one     *)
(* step per stretch of a call: the stack holds the calls in progress.      *)
(* A value of the graph is an object, an array, a string or null; an       *)
(* object has the key its __ref property names ("" without one) and the    *)
(* list of its property values, which for an object with __ref includes    *)
(* the reference string itself.                                            *)
(***************************************************************************)
VARIABLES
    w_graph,       \* the graph walked: apolloData, the values, the query value
    w_stack,       \* the calls of findProductArrays in progress, outermost first
    w_results      \* number of arrays pushed to results so far

walkVars == <<w_graph, w_stack, w_results>>

\* The configured maximum depth: if (depth > 5 || !obj) return results.
MaxWalkDepth == 5

WalkObject(ref, values) == [kind |-> "object", ref |-> ref, values |-> values, products |-> FALSE]
WalkArray(products) == [kind |-> "array", ref |-> "", values |-> <<>>, products |-> products]
WalkString == [kind |-> "string", ref |-> "", values |-> <<>>, products |-> FALSE]
WalkNull == [kind |-> "null", ref |-> "", values |-> <<>>, products |-> FALSE]

\* The graphs walked.  data is apolloData (key to value), heap the values,
\* root the value of ROOT_QUERY the walk starts from.
\*   selfref  the entry A is { __ref: "A", products: [..] }
\*   field    the entry A is { self: { __ref: "A" }, items: [..] }
\*   cycle    A is { next: { __ref: "B" } }, B is { next: { __ref: "A" } }
\*   twin     A is { left: { __ref: "A" }, items: [..], right: { __ref: "A" } }
\*   chain    nested objects seven levels deep, an array with products at
\*            depth 5 and one at depth 6
\*   dangling { __ref: "Z", none: null, items: [..] } with no entry Z
\*   flat     an array with products
WalkGraphs ==
    {[id |-> "selfref", root |-> "a",
      data |-> [k \in {"A"} |-> "a"],
      heap |-> [v \in {"a", "s", "p"} |->
                   CASE v = "a" -> WalkObject("A", <<"s", "p">>)
                     [] v = "s" -> WalkString
                     [] OTHER -> WalkArray(TRUE)]],
     [id |-> "field", root |-> "r",
      data |-> [k \in {"A"} |-> "a"],
      heap |-> [v \in {"a", "r", "s", "p"} |->
                   CASE v = "a" -> WalkObject("", <<"r", "p">>)
                     [] v = "r" -> WalkObject("A", <<"s">>)
                     [] v = "s" -> WalkString
                     [] OTHER -> WalkArray(TRUE)]],
     [id |-> "cycle", root |-> "ra",
      data |-> [k \in {"A", "B"} |-> IF k = "A" THEN "a" ELSE "b"],
      heap |-> [v \in {"a", "b", "ra", "rb", "s"} |->
                   CASE v = "a" -> WalkObject("", <<"rb">>)
                     [] v = "b" -> WalkObject("", <<"ra">>)
                     [] v = "ra" -> WalkObject("A", <<"s">>)
                     [] v = "rb" -> WalkObject("B", <<"s">>)
                     [] OTHER -> WalkString]],
     [id |-> "twin", root |-> "ra",
      data |-> [k \in {"A"} |-> "a"],
      heap |-> [v \in {"a", "ra", "s", "p"} |->
                   CASE v = "a" -> WalkObject("", <<"ra", "p", "ra">>)
                     [] v = "ra" -> WalkObject("A", <<"s">>)
                     [] v = "s" -> WalkString
                     [] OTHER -> WalkArray(TRUE)]],
     [id |-> "chain", root |-> "o0",
      data |-> [k \in {} |-> "o0"],
      heap |-> [v \in {"o0", "o1", "o2", "o3", "o4", "o5", "o6", "p5", "p6"} |->
                   CASE v = "o0" -> WalkObject("", <<"o1">>)
                     [] v = "o1" -> WalkObject("", <<"o2">>)
                     [] v = "o2" -> WalkObject("", <<"o3">>)
                     [] v = "o3" -> WalkObject("", <<"o4">>)
                     [] v = "o4" -> WalkObject("", <<"p5", "o5">>)
                     [] v = "o5" -> WalkObject("", <<"p6", "o6">>)
                     [] v = "o6" -> WalkObject("", <<>>)
                     [] v = "p5" -> WalkArray(TRUE)
                     [] OTHER -> WalkArray(TRUE)]],
     [id |-> "dangling", root |-> "r",
      data |-> [k \in {} |-> "r"],
      heap |-> [v \in {"r", "s", "n", "p", "q"} |->
                   CASE v = "r" -> WalkObject("Z", <<"s", "n", "q", "p">>)
                     [] v = "s" -> WalkString
                     [] v = "n" -> WalkNull
                     [] v = "q" -> WalkArray(FALSE)
                     [] OTHER -> WalkArray(TRUE)]],
     [id |-> "flat", root |-> "p",
      data |-> [k \in {} |-> "p"],
      heap |-> [v \in {"p"} |-> WalkArray(TRUE)]]}

\* A call in progress: "enter" before the guard, "values" in the loop over
\* Object.values(obj), next the position of the value to visit.
WalkFrame(obj, depth) == [obj |-> obj, depth |-> depth, stage |-> "enter", next |-> 1]

\* A guard one level too deep.
WalkGuardDeeper(depth, value) == depth > MaxWalkDepth + 1 \/ value.kind = "null"

\* if (depth > 5 || !obj) return results
WalkGuard(depth, value) == depth > MaxWalkDepth \/ value.kind = "null"

WalkTop == w_stack[Len(w_stack)]
WalkTopValue == w_graph.heap[WalkTop.obj]
WalkPop == SubSeq(w_stack, 1, Len(w_stack) - 1)

WalkInit ==
    /\ w_graph \in WalkGraphs
    /\ w_stack = <<WalkFrame(w_graph.root, 0)>>
    /\ w_results = 0

\* No walk is run.
WalkIdle ==
    /\ w_graph = [id |-> "none"]
    /\ w_stack = <<>>
    /\ w_results = 0

\* The guard of a call holds: it returns the empty results.
WalkGuarded ==
    /\ w_stack # <<>> /\ WalkTop.stage = "enter"
    /\ WalkGuard(WalkTop.depth, WalkTopValue)
    /\ w_stack' = WalkPop
    /\ UNCHANGED <<w_graph, w_results>>

\* The value is an array: it is pushed to results when it has a product-like
\* item, and the call returns.  A string falls through to the return.
WalkLeaf ==
    /\ w_stack # <<>> /\ WalkTop.stage = "enter"
    /\ ~WalkGuard(WalkTop.depth, WalkTopValue)
    /\ WalkTopValue.kind \in {"array", "string"}
    /\ w_results' = IF WalkTopValue.products THEN w_results + 1 ELSE w_results
    /\ w_stack' = WalkPop
    /\ UNCHANGED w_graph

\* The value is an object: the entry its __ref names, if there is one, is
\* walked first, at depth + 1.
WalkEnterObject ==
    /\ w_stack # <<>> /\ WalkTop.stage = "enter"
    /\ ~WalkGuard(WalkTop.depth, WalkTopValue)
    /\ WalkTopValue.kind = "object"
    /\ LET here == [WalkTop EXCEPT !.stage = "values"]
           ref == WalkTopValue.ref
       IN w_stack' =
              IF ref # "" /\ ref \in DOMAIN w_graph.data
              THEN WalkPop \o <<here, WalkFrame(w_graph.data[ref], WalkTop.depth + 1)>>
              ELSE WalkPop \o <<here>>
    /\ UNCHANGED <<w_graph, w_results>>

\* for (const value of Object.values(obj)): the next value is walked at
\* depth + 1.
WalkValue ==
    /\ w_stack # <<>> /\ WalkTop.stage = "values"
    /\ WalkTop.next <= Len(WalkTopValue.values)
    /\ w_stack' = WalkPop \o <<[WalkTop EXCEPT !.next = @ + 1],
                               WalkFrame(WalkTopValue.values[WalkTop.next],
                                         WalkTop.depth + 1)>>
    /\ UNCHANGED <<w_graph, w_results>>

\* The loop over the values is over: return results.
WalkReturn ==
    /\ w_stack # <<>> /\ WalkTop.stage = "values"
    /\ WalkTop.next > Len(WalkTopValue.values)
    /\ w_stack' = WalkPop
    /\ UNCHANGED <<w_graph, w_results>>

(***************************************************************************)
(* SpecPrice: parsePrice of the hybrid pipeline (main.js 801-807) and of   *)
(* the CheerioCrawler variant (main.js 40-45), applied to one input.       *)
(***************************************************************************)
VARIABLES
    pr_input,      \* the argument priceStr
    pr_out         \* <<>> before the call; then the two results, hybrid first

priceVars == <<pr_input, pr_out>>

MaxPriceLen == 4

\* The characters of the strings tried: a currency sign, two digits, the
\* decimal point, a letter.
PriceChars == {"$", "7", "9", ".", "x"}

\* The arguments tried: every string of at most MaxPriceLen of these
\* characters, two longer price texts, and values that are not strings.
PriceInputs ==
    {Str(chars) : chars \in UNION {[1..k -> PriceChars] : k \in 0..MaxPriceLen}}
    \cup {Str(<<"$", "5", ".", "9", "9">>),
          Str(<<"w", "a", "s", " ", "$", "7", ".", "9", "9", " ", "e", "a", "c", "h">>),
          Str(<<"$", "7", ".", "9", "9", " ", "s", "a", "v", "e", " ", "$", "1", ".", "0", "0">>),
          Null, Undef, NaN, Num(0), Num(7), Dec(799, 2), True, False}

\* The digits of n, padded with zeros on the left to width places.
RECURSIVE PadPieces(_, _)
PadPieces(n, width) ==
    IF width = 0 THEN <<>> ELSE PadPieces(n \div 10, width - 1) \o <<Digits[(n % 10) + 1]>>

\* String(value) for a string, a non-negative decimal number or a boolean.
StringOf(v) ==
    IF v.k = "string" THEN v.s
    ELSE IF v.k = "number" THEN
        IF v.e = 0 THEN NatPieces(v.n)
        ELSE NatPieces(v.n \div (10 ^ v.e)) \o <<".">> \o PadPieces(v.n % (10 ^ v.e), v.e)
    ELSE IF v = True THEN <<"t", "r", "u", "e">>
    ELSE <<"f", "a", "l", "s", "e">>

\* parsePrice of the CheerioCrawler variant (main.js 40-45)
parsePriceC(priceStr) ==
    IF Falsy(priceStr) THEN Null
    ELSE LET cleaned == SelectSeq(StringOf(priceStr), LAMBDA c : IsDigit(c) \/ c = ".")
             parsed == ParseFloat(cleaned)
         IN IF parsed = NaN THEN Null ELSE parsed

PriceInit ==
    /\ pr_input \in PriceInputs
    /\ pr_out = <<>>

\* parsePrice is not called.
PriceIdle ==
    /\ pr_input = Undef
    /\ pr_out = <<Undef>>

\* One call of each parsePrice on the argument.
ParsePriceCall ==
    /\ pr_out = <<>>
    /\ pr_out' = <<parsePrice(pr_input), parsePriceC(pr_input)>>
    /\ UNCHANGED pr_input

(***************************************************************************)
(* SpecStore: the two normalizers of extractProductsFromApollo,            *)
(* extractLandingProduct (main.js 592-708) and extractProductFields        *)
(* (main.js 752-796), applied to one candidate node and one page URL.      *)
(***************************************************************************)
VARIABLES
    st_node,       \* the candidate node (item, product)
    st_baseUrl,    \* the page URL (baseUrl)
    st_out         \* <<>> before the calls; then the two records, landing first

storeVars == <<st_node, st_baseUrl, st_out>>

\* The properties of a node that carry a retailer name, in the order
\* extractLandingProduct reads them; viewSection is the object chosen by
\* item.viewSection || item.image?.viewSection || {} (main.js 634).
InlineStoreProps ==
    <<"retailerName", "retailer", "storeName", "store",
      "viewSection.retailerName", "viewSection.storeName">>

StoreNodeProps ==
    NodeProps \cup {InlineStoreProps[i] : i \in DOMAIN InlineStoreProps}
              \cup {"landingParam", "retailerSlug", "storeSlug"}

EmptyStoreNode == [p \in StoreNodeProps |-> Undef]

\* Identified by an id, by a landingParam, by a legacyId, by a url under a
\* store, or by a name only.
StoreNodeBases ==
    {[EmptyStoreNode EXCEPT !["id"] = Str(<<"1">>), !["name"] = Apple],
     [EmptyStoreNode EXCEPT !["id"] = Str(<<"1">>), !["name"] = Apple,
                            !["landingParam"] = Str(<<"1", "-", "a", "p", "p", "l", "e">>)],
     [EmptyStoreNode EXCEPT !["legacyId"] = Num(5), !["name"] = Kiwi],
     [EmptyStoreNode EXCEPT !["id"] = Str(<<"2">>), !["name"] = Kiwi,
                            !["url"] = StoreProductsUrl(Str(<<"a", "l", "d", "i">>), Str(<<"2">>))],
     [EmptyStoreNode EXCEPT !["name"] = Milk]}

\* Each of them without a retailer name and with the name Acme in one of
\* the properties that carry one.
StoreNodes ==
    StoreNodeBases
    \cup {[base EXCEPT ![InlineStoreProps[i]] = Acme] :
              base \in StoreNodeBases, i \in DOMAIN InlineStoreProps}

\* Page URLs: under a store, under a store written in capitals, with the
\* retailer in the query string only, and without a retailer.
UrlStoreUpper == Str(<<Host, "/store/", "C", "O", "S", "T", "C", "O", "/categories/", "3", "1", "6">>)
UrlRetailerParam == Str(<<Host, "/categories/", "3", "1", "6", "?retailerSlug=", "a", "l", "d", "i">>)
StorePageUrls == {UrlStore, UrlStoreUpper, UrlRetailerParam, UrlGeneric}

\* extractLandingProduct (main.js 592-708): the identity and the store of
\* the record. The price, brand, image and availability fields are read
\* from properties of their own and have no part in the store.
extractLandingProduct(item, baseUrl, now) ==
    LET id == OrChain(<<item["id"], item["productId"]>>)
        name == OrChain(<<item["name"], item["title"]>>)
        landingParam == OrChain(<<item["landingParam"]>>)
        productUrl ==
            IF Truthy(landingParam) THEN ProductsUrl(Str(TemplatePieces(landingParam)))
            ELSE IF Truthy(id) THEN ProductsUrl(Str(TemplatePieces(id)))
            ELSE Null
        retailer ==
            Or(item["retailerName"], Or(item["retailer"], Or(item["storeName"],
            Or(item["store"], Or(item["viewSection.retailerName"],
            Or(item["viewSection.storeName"], extractRetailerFromUrl(baseUrl)))))))
        storeSlug ==
            Or(item["retailerSlug"], Or(item["storeSlug"],
                                        extractRetailerSlugFromUrl(baseUrl)))
    IN [product_id |-> id,
        name |-> name,
        size |-> OrChain(<<item["size"]>>),
        product_url |-> productUrl,
        store |-> retailer,
        store_slug |-> storeSlug,
        category |-> Null,
        timestamp |-> IsoTime(now),
        extraction_method |-> ApolloGraphql]

StoreInit ==
    /\ st_node \in StoreNodes
    /\ st_baseUrl \in StorePageUrls
    /\ st_out = <<>>

\* Neither normalizer is called.
StoreIdle ==
    /\ st_node = Undef
    /\ st_baseUrl = Undef
    /\ st_out = <<Undef>>

\* One call of each normalizer on the node and the page URL
\* (main.js 479, 505 and 517, 531).
NormalizeCall ==
    /\ st_out = <<>>
    /\ st_out' = <<extractLandingProduct(st_node, st_baseUrl, 0),
                   extractProductFields(st_node, st_baseUrl, 0)>>
    /\ UNCHANGED <<st_node, st_baseUrl>>

(***************************************************************************)
(* SpecCookie: the session cookie jar (main.js 349, 1173-1192) and the     *)
(* calls that read and write it.  A Transport call is fetchWithHTTP or     *)
(* fetchJsonWithHTTP (1231-1285, 1287-1329): the request is built and sent,*)
(* and after the await the response is handled; the detail pass keeps      *)
(* several calls in flight at once (1544-1548).  A Render call is          *)
(* fetchWithPlaywright (1334-1406).  A string is a sequence of characters. *)
(***************************************************************************)
VARIABLES
    ck_jar,        \* sessionCookies: <<name, value>> pairs in insertion order
    ck_inflight,   \* the number of Transport requests awaiting their response
    ck_calls,      \* the requests and Render calls made, each with the cookies
                   \* it carried and the cookies the responses had set by then
    ck_latest,     \* per name, the value the responses handled so far set last
    ck_usePlaywright   \* the escalation flag usePlaywright (main.js 347)

cookieVars == <<ck_jar, ck_inflight, ck_calls, ck_latest, ck_usePlaywright>>

MaxCookieCalls == 3
MaxInFlight == 2

\* Set-Cookie lines: raw is the line the server sends, name and value the
\* cookie it sets (valid), or none (a line without '=' or without a name).
CookieLines ==
    [zip1  |-> [raw |-> <<"z", "=", "1", ";", " ", "P", "a", "t", "h", "=", "/">>,
                valid |-> TRUE, name |-> <<"z">>, value |-> <<"1">>],
     zip2  |-> [raw |-> <<"z", "=", "2">>,
                valid |-> TRUE, name |-> <<"z">>, value |-> <<"2">>],
     token |-> [raw |-> <<"s", "=", "a", "=", "b", ";", " ", "H", "t", "t", "p", "O", "n", "l", "y">>,
                valid |-> TRUE, name |-> <<"s">>, value |-> <<"a", "=", "b">>],
     store |-> [raw |-> <<"s", "=", "9", " ", ";", "S", "e", "c", "u", "r", "e">>,
                valid |-> TRUE, name |-> <<"s">>, value |-> <<"9">>],
     noname |-> [raw |-> <<"=", "x">>, valid |-> FALSE, name |-> <<>>, value |-> <<>>],
     flag  |-> [raw |-> <<"f", "l", "a", "g">>, valid |-> FALSE, name |-> <<>>, value |-> <<>>]]

\* response.headers['set-cookie']: absent, one line, or an array of lines.
SetCookieHeaders ==
    {<<>>, <<"zip1">>, <<"zip2">>, <<"token">>, <<"store">>, <<"noname">>, <<"flag">>,
     <<"zip1", "token">>, <<"zip1", "zip2">>, <<"flag", "store">>}

\* s.trim()
RECURSIVE Trim(_)
Trim(chars) ==
    IF chars = <<>> THEN <<>>
    ELSE IF Head(chars) = " " THEN Trim(Tail(chars))
    ELSE IF chars[Len(chars)] = " " THEN Trim(SubSeq(chars, 1, Len(chars) - 1))
    ELSE chars

\* A jar that forgets the other names when one is set.
JarSetAlone(jar, name, value) == <<<<name, value>>>>

\* sessionCookies.set(name, value): a name already in the map keeps its
\* place and takes the value; a new name is added last.
JarSet(jar, name, value) ==
    IF \E i \in DOMAIN jar : jar[i][1] = name
    THEN [i \in DOMAIN jar |-> IF jar[i][1] = name THEN <<name, value>> ELSE jar[i]]
    ELSE Append(jar, <<name, value>>)

\* The body of the loop of updateCookiesFromResponse for one line
\* (main.js 1185-1190).
JarParse(jar, cookie) ==
    LET pair == TakeUntil(cookie, {";"})
        eqs == {i \in DOMAIN pair : pair[i] = "="}
        eqIndex == IF eqs = {} THEN -1 ELSE Least(eqs) - 1
        name == Trim(SubSeq(pair, 1, eqIndex))
        value == Trim(SubSeq(pair, eqIndex + 2, Len(pair)))
    IN IF eqIndex <= 0 THEN jar
       ELSE IF name # <<>> THEN JarSet(jar, name, value)
       ELSE jar

\* updateCookiesFromResponse (main.js 1180-1192) for the lines of a header
RECURSIVE updateCookiesFromResponse(_, _)
updateCookiesFromResponse(jar, lines) ==
    IF lines = <<>> THEN jar
    ELSE updateCookiesFromResponse(JarParse(jar, CookieLines[Head(lines)].raw), Tail(lines))

\* getCookieHeader (main.js 1173-1178): null for an empty jar, else the
\* `${name}=${value}` strings, which the code joins with '; '.
getCookieHeader(jar) ==
    IF jar = <<>> THEN <<>>
    ELSE [i \in DOMAIN jar |-> jar[i][1] \o <<"=">> \o jar[i][2]]

\* The cookies the responses have set, per name the last value, after the
\* lines of one more header.
RECURSIVE LatestAfter(_, _)
LatestAfter(latest, lines) ==
    IF lines = <<>> THEN latest
    ELSE LET line == CookieLines[Head(lines)]
         IN LatestAfter(IF line.valid
                        THEN {c \in latest : c[1] # line.name} \cup {<<line.name, line.value>>}
                        ELSE latest,
                        Tail(lines))

CookieInit ==
    /\ ck_jar = <<>>
    /\ ck_inflight = 0
    /\ ck_calls = <<>>
    /\ ck_latest = {}
    /\ ck_usePlaywright = FALSE

\* No call is made.
CookieIdle ==
    /\ ck_jar = <<>>
    /\ ck_inflight = -1
    /\ ck_calls = <<>>
    /\ ck_latest = {}
    /\ ck_usePlaywright = FALSE

\* fetchWithHTTP or fetchJsonWithHTTP up to its await: the headers are
\* built with the Cookie header of the jar and the request is sent
\* (main.js 1235-1243, 1224-1225).
TransportSend ==
    /\ ck_inflight >= 0 /\ ck_inflight < MaxInFlight
    /\ Len(ck_calls) < MaxCookieCalls
    /\ ck_calls' = Append(ck_calls, [kind |-> "transport", cookie |-> getCookieHeader(ck_jar),
                                     latest |-> ck_latest])
    /\ ck_inflight' = ck_inflight + 1
    /\ UNCHANGED <<ck_jar, ck_latest, ck_usePlaywright>>

\* The response of a request in flight arrives (main.js 1245).
TransportReceive ==
    /\ ck_inflight > 0
    /\ \E lines \in SetCookieHeaders :
        /\ ck_jar' = updateCookiesFromResponse(ck_jar, lines)
        /\ ck_latest' = LatestAfter(ck_latest, lines)
    /\ ck_inflight' = ck_inflight - 1
    /\ UNCHANGED <<ck_calls, ck_usePlaywright>>

\* gotScraping throws for a request in flight: no response (main.js 1281).
TransportThrow ==
    /\ ck_inflight > 0
    /\ ck_inflight' = ck_inflight - 1
    /\ UNCHANGED <<ck_jar, ck_calls, ck_latest, ck_usePlaywright>>

\* The flag is set: by scrapeUrl when fetchWithHTTP gave no HTML
\* (main.js 1424-1427) and on entry of fetchProductDetailsBatch (1569).
Escalate ==
    /\ ck_inflight = 0
    /\ ck_calls # <<>>
    /\ ck_usePlaywright' = TRUE
    /\ UNCHANGED <<ck_jar, ck_inflight, ck_calls, ck_latest>>

\* fetchWithPlaywright (main.js 1334-1406), called with the flag set
\* (1429-1431): a new PlaywrightCrawler, whose browser is given the
\* Accept-Language header only (1378-1380); the jar is neither read nor
\* written.
RenderCall ==
    /\ ck_inflight = 0
    /\ ck_usePlaywright
    /\ Len(ck_calls) < MaxCookieCalls
    /\ ck_calls' = Append(ck_calls, [kind |-> "render", cookie |-> <<>>, latest |-> ck_latest])
    /\ UNCHANGED <<ck_jar, ck_inflight, ck_latest, ck_usePlaywright>>

(***************************************************************************)
(* The concurrency settings.  The run reads detailConcurrency from its input,*)
(* clamps it, and gives each browser crawler it creates a concurrency of its*)
(* own: one crawler per rendered listing page, one per browser detail pass.*)
(***************************************************************************)
VARIABLES
    rc_raw,        \* the detailConcurrency property of the input object
    rc_pc,         \* "input" before the settings are computed, then "ready"
    rc_detail,     \* DETAIL_CONCURRENCY (0 before it is computed)
    rc_crawlers    \* the options of the browser crawlers created, in order

renderVars == <<rc_raw, rc_pc, rc_detail, rc_crawlers>>

\* The number of browser crawlers a run of the model creates.
MaxCrawlers == 2
\* The whole numbers given as detailConcurrency.
RawNumbers == -2 .. 12
\* The default of the destructured input property.
DefaultDetailConcurrency == 4
\* The highest DETAIL_CONCURRENCY.
MaxDetailConcurrency == 10
\* The highest concurrency of the browser detail crawler.
MaxBrowserDetailConcurrency == 4
\* maxConcurrency of the crawler that renders a listing page.
ListingRenderConcurrency == 1

RawConcurrencies ==
    {Undef, Null, True, Str(<<"a">>), Str(<<"7">>), EmptyStr}
        \cup {Num(i) : i \in RawNumbers}

MinOf(a, b) == IF a < b THEN a ELSE b
MaxOf(a, b) == IF a > b THEN a ELSE b

\* +v for the values above: <<TRUE, n>> for the finite number n, <<FALSE, 0>>
\* for NaN.
UnaryPlus(v) ==
    CASE v.k = "number" -> <<TRUE, v.n>>
      [] v.k = "boolean" -> <<TRUE, v.n>>
      [] v.k = "null" -> <<TRUE, 0>>
      [] v.k = "string" /\ v.s = <<>> -> <<TRUE, 0>>
      [] v.k = "string" /\ v.s = <<"7">> -> <<TRUE, 7>>
      [] OTHER -> <<FALSE, 0>>

\* DETAIL_CONCURRENCY for the input property raw.
DetailConcurrencyOf(raw) ==
    LET given == IF raw = Undef THEN Num(DefaultDetailConcurrency) ELSE raw
        num == UnaryPlus(given)
    IN  IF num[1] THEN MinOf(MaxDetailConcurrency, MaxOf(1, num[2]))
        ELSE DefaultDetailConcurrency

\* A browser detail crawler as concurrent as the HTTP detail pass.
BrowserDetailConcurrencyUncapped(detailConcurrency) == detailConcurrency

\* maxConcurrency of the crawler of the browser detail pass.
BrowserDetailConcurrency(detailConcurrency) ==
    MinOf(detailConcurrency, MaxBrowserDetailConcurrency)

RenderInit ==
    /\ rc_raw \in RawConcurrencies
    /\ rc_pc = "input"
    /\ rc_detail = 0
    /\ rc_crawlers = <<>>

RenderIdle ==
    /\ rc_raw = Undef
    /\ rc_pc = "idle"
    /\ rc_detail = 0
    /\ rc_crawlers = <<>>

\* main computes its settings from the input.
ReadSettings ==
    /\ rc_pc = "input"
    /\ rc_pc' = "ready"
    /\ rc_detail' = DetailConcurrencyOf(rc_raw)
    /\ UNCHANGED <<rc_raw, rc_crawlers>>

\* fetchWithPlaywright creates the crawler that renders one listing page.
ListingCrawler ==
    /\ rc_pc = "ready"
    /\ Len(rc_crawlers) < MaxCrawlers
    /\ rc_crawlers' = Append(rc_crawlers,
           [layer |-> "listing", maxConcurrency |-> ListingRenderConcurrency])
    /\ UNCHANGED <<rc_raw, rc_pc, rc_detail>>

\* fetchProductDetailsBatch creates the crawler of the browser detail pass.
DetailCrawler ==
    /\ rc_pc = "ready"
    /\ Len(rc_crawlers) < MaxCrawlers
    /\ rc_crawlers' = Append(rc_crawlers,
           [layer |-> "detail",
            maxConcurrency |-> BrowserDetailConcurrency(rc_detail)])
    /\ UNCHANGED <<rc_raw, rc_pc, rc_detail>>

\* The variables of the specifications other than the four first ones.
auxVars == <<walkVars, priceVars, storeVars, cookieVars, renderVars>>
AuxIdle == WalkIdle /\ PriceIdle /\ StoreIdle /\ CookieIdle /\ RenderIdle

vars == <<mergeVars, fetchVars, cheerioVars, pipeVars, auxVars>>

InitMerge == MergeInit /\ FetchIdle /\ CheerioIdle /\ PipeIdle /\ AuxIdle

NextMerge == MergeApply /\ UNCHANGED <<fetchVars, cheerioVars, pipeVars, auxVars>>

SpecMerge == InitMerge /\ [][NextMerge]_vars

InitFetch == FetchInit /\ MergeIdle /\ CheerioIdle /\ PipeIdle /\ AuxIdle

NextFetch ==
    \/ FetchResponse /\ UNCHANGED <<mergeVars, cheerioVars, pipeVars, auxVars>>
    \/ FetchThrows /\ UNCHANGED <<mergeVars, cheerioVars, pipeVars, auxVars>>
    \/ FetchRetry /\ UNCHANGED <<mergeVars, cheerioVars, pipeVars, auxVars>>

SpecFetch == InitFetch /\ [][NextFetch]_vars

InitCheerio == CheerioInit /\ MergeIdle /\ FetchIdle /\ PipeIdle /\ AuxIdle

NextCheerio ==
    \/ ListStart /\ UNCHANGED <<mergeVars, fetchVars, pipeVars, auxVars>>
    \/ ListLinkPushed /\ UNCHANGED <<mergeVars, fetchVars, pipeVars, auxVars>>
    \/ ListDetailEnqueued /\ UNCHANGED <<mergeVars, fetchVars, pipeVars, auxVars>>
    \/ ListProductPushed /\ UNCHANGED <<mergeVars, fetchVars, pipeVars, auxVars>>
    \/ ListNextEnqueued /\ UNCHANGED <<mergeVars, fetchVars, pipeVars, auxVars>>
    \/ DetailStart /\ UNCHANGED <<mergeVars, fetchVars, pipeVars, auxVars>>
    \/ DetailFetched /\ UNCHANGED <<mergeVars, fetchVars, pipeVars, auxVars>>
    \/ DetailPushed /\ UNCHANGED <<mergeVars, fetchVars, pipeVars, auxVars>>

SpecCheerio == InitCheerio /\ [][NextCheerio]_vars

Init == PipeInit /\ MergeIdle /\ FetchIdle /\ CheerioIdle /\ AuxIdle

Next ==
    \/ ScrapePage /\ UNCHANGED <<mergeVars, fetchVars, cheerioVars, auxVars>>
    \/ SkipStartUrl /\ UNCHANGED <<mergeVars, fetchVars, cheerioVars, auxVars>>
    \/ ListingDone /\ UNCHANGED <<mergeVars, fetchVars, cheerioVars, auxVars>>
    \/ DetailChunkStart /\ UNCHANGED <<mergeVars, fetchVars, cheerioVars, auxVars>>
    \/ FetchDetailForProductHTTP /\ UNCHANGED <<mergeVars, fetchVars, cheerioVars, auxVars>>
    \/ FetchProductDetailsBatch /\ UNCHANGED <<mergeVars, fetchVars, cheerioVars, auxVars>>
    \/ WriteStats /\ UNCHANGED <<mergeVars, fetchVars, cheerioVars, auxVars>>

Spec == Init /\ [][Next]_vars

\* The other specifications leave the variables of the four first ones alone.
mainVars == <<mergeVars, fetchVars, cheerioVars, pipeVars>>
MainIdle == MergeIdle /\ FetchIdle /\ CheerioIdle /\ PipeIdle

InitWalk == WalkInit /\ MainIdle /\ PriceIdle /\ StoreIdle /\ CookieIdle /\ RenderIdle

NextWalk ==
    \/ WalkGuarded /\ UNCHANGED <<mainVars, priceVars, storeVars, cookieVars, renderVars>>
    \/ WalkLeaf /\ UNCHANGED <<mainVars, priceVars, storeVars, cookieVars, renderVars>>
    \/ WalkEnterObject /\ UNCHANGED <<mainVars, priceVars, storeVars, cookieVars, renderVars>>
    \/ WalkValue /\ UNCHANGED <<mainVars, priceVars, storeVars, cookieVars, renderVars>>
    \/ WalkReturn /\ UNCHANGED <<mainVars, priceVars, storeVars, cookieVars, renderVars>>

SpecWalk == InitWalk /\ [][NextWalk]_vars

\* A call that can take a step takes it: the walk is synchronous code.
SpecWalkLive == SpecWalk /\ WF_vars(NextWalk)

InitPrice == PriceInit /\ MainIdle /\ WalkIdle /\ StoreIdle /\ CookieIdle /\ RenderIdle

NextPrice == ParsePriceCall /\ UNCHANGED <<mainVars, walkVars, storeVars, cookieVars, renderVars>>

SpecPrice == InitPrice /\ [][NextPrice]_vars

InitStore == StoreInit /\ MainIdle /\ WalkIdle /\ PriceIdle /\ CookieIdle /\ RenderIdle

NextStore == NormalizeCall /\ UNCHANGED <<mainVars, walkVars, priceVars, cookieVars, renderVars>>

SpecStore == InitStore /\ [][NextStore]_vars

InitCookie == CookieInit /\ MainIdle /\ WalkIdle /\ PriceIdle /\ StoreIdle /\ RenderIdle

NextCookie ==
    \/ TransportSend /\ UNCHANGED <<mainVars, walkVars, priceVars, storeVars, renderVars>>
    \/ TransportReceive /\ UNCHANGED <<mainVars, walkVars, priceVars, storeVars, renderVars>>
    \/ TransportThrow /\ UNCHANGED <<mainVars, walkVars, priceVars, storeVars, renderVars>>
    \/ Escalate /\ UNCHANGED <<mainVars, walkVars, priceVars, storeVars, renderVars>>
    \/ RenderCall /\ UNCHANGED <<mainVars, walkVars, priceVars, storeVars, renderVars>>

SpecCookie == InitCookie /\ [][NextCookie]_vars

InitRender == RenderInit /\ MainIdle /\ WalkIdle /\ PriceIdle /\ StoreIdle /\ CookieIdle

NextRender ==
    \/ ReadSettings /\ UNCHANGED <<mainVars, walkVars, priceVars, storeVars, cookieVars>>
    \/ ListingCrawler /\ UNCHANGED <<mainVars, walkVars, priceVars, storeVars, cookieVars>>
    \/ DetailCrawler /\ UNCHANGED <<mainVars, walkVars, priceVars, storeVars, cookieVars>>

SpecRender == InitRender /\ [][NextRender]_vars

(***************************************************************************)
(* Claims about mergeProductDetails (checked under SpecMerge).             *)
(***************************************************************************)

\* C2 (as claimed): applying mergeProductDetails(r, d, m) a second time
\* changes nothing: every field of r, the two stamps detail_extraction_method
\* and enriched_at included, is what the first application left.
C2_IdempotentMerge == m_calls >= 2 => m_target = m_prev

\* C3: a call of mergeProductDetails changes an existing field only when the
\* existing value is null / undefined / empty, or the field is store and the
\* existing store is the placeholder 'Instacart', or the field is price and
\* the existing price is null or zero while the incoming price is non-null;
\* every other populated field keeps the value it had.  A placeholder store
\* merged with 'Acme Market' becomes 'Acme Market', and 'Acme Market' merged
\* with the placeholder stays 'Acme Market'.
C3_MergePrecedence ==
    m_calls > 0 =>
        IF m_detail = NullObj THEN m_target = m_prev
        ELSE /\ \A f \in MergeFields :
                   m_target[f] # m_prev[f] =>
                       /\ \/ m_prev[f] \in {Undef, Null, EmptyStr}
                          \/ f = "store" /\ m_prev[f] = Instacart
                          \/ f = "price" /\ m_prev[f] \in {Null, Num(0)} /\ m_detail[f] # Null
                       /\ m_target[f] = m_detail[f]
             /\ (m_prev["store"] = Instacart /\ m_detail["store"] = AcmeMarket)
                    => m_target["store"] = AcmeMarket
             /\ (m_prev["store"] = AcmeMarket /\ m_detail["store"] = Instacart)
                    => m_target["store"] = AcmeMarket

\* C3 witness: a placeholder store has been replaced by 'Acme Market' while a
\* populated brand met a different incoming brand and kept its value.
C3_Witness ==
    /\ m_calls = 1
    /\ m_detail # NullObj
    /\ m_prev["store"] = Instacart
    /\ m_detail["store"] = AcmeMarket
    /\ m_target["store"] = AcmeMarket
    /\ m_prev["brand"] = Str(<<"a">>)
    /\ m_detail["brand"] = Str(<<"b">>)
    /\ m_target["brand"] = Str(<<"a">>)

(***************************************************************************)
(* Claims about fetchWithHTTP (checked under SpecFetch).                   *)
(***************************************************************************)
FetchLast == f_responses[Len(f_responses)]

\* Every response so far was a 202 whose body lacks the state-blob marker.
FetchOnly202NoMarker ==
    \A i \in DOMAIN f_responses :
        f_responses[i].status = 202 /\ ~HasApolloMarker(f_responses[i].body)

\* The delays slept so far are 1 s, 2 s, 4 s, ... in this order.
FetchBackoffDoubles ==
    \A i \in DOMAIN f_sleeps : f_sleeps[i] = 1000 * 2 ^ (i - 1)

\* A 202 whose body carries the marker is returned at once, with no sleep
\* and no further request after it.
Fetch202MarkerAccepted ==
    (/\ f_responses # <<>>
     /\ FetchLast.status = 202
     /\ HasApolloMarker(FetchLast.body))
        => /\ f_pc = "done"
           /\ f_return = FetchLast.body
           /\ Len(f_sleeps) = Len(f_responses) - 1
           /\ f_requests = Len(f_responses)

\* C9 (as claimed): a 202 with the marker is accepted without retry; for a
\* URL that keeps answering 202 without the marker, fetchWithHTTP backs off
\* 1 s, 2 s, 4 s, makes at most 3 requests in total and then returns the
\* last body instead of a Failure.
C9_Http202Policy ==
    /\ Fetch202MarkerAccepted
    /\ FetchOnly202NoMarker =>
        /\ FetchBackoffDoubles
        /\ f_requests <= 3
        /\ f_pc = "done" /\ f_responses # <<>> => f_return = FetchLast.body

\* C9 (amended): as above, but the requests are at most 4 in total: the
\* first one and MAX_RETRIES = 3 retries, after 1 s, 2 s and 4 s; the call
\* returns on the 4th such answer, with its body.
C9_Http202PolicyAmended ==
    /\ Fetch202MarkerAccepted
    /\ FetchOnly202NoMarker =>
        /\ FetchBackoffDoubles
        /\ f_requests <= MAX_RETRIES + 1
        /\ f_pc = "sleep" => Len(f_sleeps) = f_requests /\ f_requests <= MAX_RETRIES
        /\ f_pc = "done" /\ f_responses # <<>> =>
              /\ f_requests = MAX_RETRIES + 1
              /\ f_sleeps = <<1000, 2000, 4000>>
              /\ f_return = FetchLast.body
              /\ f_return # Null

\* C9 witness: four 202 answers without the marker, then the last body is
\* returned.
C9_Witness ==
    /\ f_pc = "done"
    /\ Len(f_responses) = 4
    /\ FetchOnly202NoMarker
    /\ f_return = Str(<<"<html>">>)

\* Every response so far was a 429, 403 or 503.
FetchOnlyTransient ==
    \A i \in DOMAIN f_responses : f_responses[i].status \in {429, 403, 503}

\* C10 (as claimed): 429 / 403 / 503 are retried with the backoff of a 202
\* without payload, and once the retries are used up the call returns the
\* body of the last response, not a Failure.
C10_TransientBestEffort ==
    /\ FetchOnlyTransient => FetchBackoffDoubles /\ f_requests <= MAX_RETRIES + 1
    /\ (/\ f_pc = "done"
        /\ f_responses # <<>>
        /\ FetchLast.status \in {429, 403, 503})
            => f_return = FetchLast.body /\ f_return # Null

\* C10 (amended): 429 / 403 / 503 are retried with the backoff of a 202
\* without payload (3 retries, after 1 s, 2 s, 4 s); once the retries are
\* used up the call returns Failure (null), whatever body the last response
\* had.
C10_TransientThenFailure ==
    /\ FetchOnlyTransient =>
        /\ FetchBackoffDoubles
        /\ f_requests <= MAX_RETRIES + 1
        /\ f_pc = "sleep" => Len(f_sleeps) = f_requests /\ f_requests <= MAX_RETRIES
    /\ (/\ f_pc = "done"
        /\ f_responses # <<>>
        /\ FetchLast.status \in {429, 403, 503})
            => /\ f_return = Null
               /\ f_requests = MAX_RETRIES + 1
               /\ f_sleeps = <<1000, 2000, 4000>>

\* C10 witness: four transient answers, the last one with a body, and the
\* call has returned null.
C10_Witness ==
    /\ f_pc = "done"
    /\ Len(f_responses) = 4
    /\ FetchOnlyTransient
    /\ FetchLast.body = Str(<<"<html>">>)
    /\ f_return = Null

\* C11: non-transient failure. A response that is not 200, 202, 429, 403 or
\* 503, and a request that throws (network error, timeout), end the call at
\* once with null: no request follows it.  A 200 response ends the call at
\* once with its body.  So every response before the last one is a 202, 429,
\* 403 or 503.
C11_NonTransientFailure ==
    /\ \A i \in DOMAIN f_responses :
           i < Len(f_responses) => f_responses[i].status \in {202, 429, 403, 503}
    /\ (f_responses # <<>> /\ FetchLast.status \notin {200, 202, 429, 403, 503})
           => /\ f_pc = "done"
              /\ f_return = Null
              /\ f_requests = Len(f_responses)
    /\ (f_responses # <<>> /\ FetchLast.status = 200)
           => /\ f_pc = "done"
              /\ f_return = FetchLast.body
              /\ f_requests = Len(f_responses)

\* C11 witness: a 503 was retried, the retry was answered 404 with a body,
\* and the call has returned null after these two requests.
C11_Witness ==
    /\ f_pc = "done"
    /\ Len(f_responses) = 2
    /\ f_responses[1].status = 503
    /\ f_responses[2] = [status |-> 404, body |-> Str(<<"<html>">>)]
    /\ f_return = Null
    /\ f_requests = 2

(***************************************************************************)
(* Claims about the CheerioCrawler variant (checked under SpecCheerio).    *)
(***************************************************************************)

\* C5 (as claimed): under every interleaving of the LIST and DETAIL
\* handlers, neither the number of records pushed to the dataset nor the
\* counter saved ever exceeds results_wanted.
C5_ResultCapConcurrent ==
    /\ c_saved <= c_cfg.wanted
    /\ Len(c_dataset) <= c_cfg.wanted

\* C16 (as claimed): URL deduplication in the CheerioCrawler variant. With
\* dedupe enabled, no two records of the dataset carry the same product_url
\* (a record without a product_url is not counted), whatever the
\* interleaving of the handlers, detail-enriched records included.
C16_UrlDedup ==
    c_cfg.dedupe =>
        \A i, j \in DOMAIN c_dataset :
            (i # j /\ c_dataset[i].url # NoUrl) => c_dataset[i].url # c_dataset[j].url

(***************************************************************************)
(* Claims about the hybrid pipeline (checked under Spec).                  *)
(***************************************************************************)

\* C1 (as claimed): key stability. At every point of a run, listing pass
\* and enrichment pass included, no two records of the sink have the same
\* non-null product_id.
C1_KeyStability ==
    \A i, j \in DOMAIN p_sink :
        (i # j /\ p_sink[i]["product_id"] \notin {Undef, Null})
            => p_sink[i]["product_id"] # p_sink[j]["product_id"]

\* C4 (as claimed): result cap. Over a whole run, listing pass and
\* enrichment pass together, the number of records emitted to the sink never
\* exceeds results_wanted.
C4_ResultCap == Len(p_sink) <= p_cfg.wanted

\* C6 (as claimed): escalation stickiness. A fetch that starts when the
\* escalation flag is already set issues no direct-HTTP request: it goes to
\* the render path straight away.
C6_EscalationSticky ==
    p_lastFetch.escalated =>
        \A i \in DOMAIN p_lastFetch.kinds : p_lastFetch.kinds[i] # "http"

\* C7 (as claimed): end-to-end scenario. A run with a target of 1 record
\* that scraped a single listing page, the one whose graph holds Item:1
\* (price "$3.49") and Item:2 (no price), ends with exactly one record in
\* the sink: the one of Item:1, with price 3.49, in_stock true and the
\* graph-state extraction method.
C7_EndToEndScenario ==
    (/\ p_pc = "done"
     /\ p_cfg.wanted = 1
     /\ p_scrapes = 1
     /\ p_last.page = "scenario")
        => /\ Len(p_sink) = 1
           /\ p_sink[1]["product_id"] = Str(<<"1">>)
           /\ p_sink[1]["price"] = Dec(349, 2)
           /\ p_sink[1]["in_stock"] = True
           /\ p_sink[1]["extraction_method"] = ApolloGraphql

\* An entry of the state graph that extractProductsFromApollo would take for
\* a product: an Item / Product entity with a name or an id.
ProductShaped(entry) ==
    /\ \/ entry.key[1] \in {"Product:", "Item:"}
       \/ entry.value["__typename"] \in {Str(<<"Product">>), Str(<<"Item">>)}
    /\ \E prop \in {"name", "title", "displayName",
                    "id", "productId", "product_id", "legacyId", "sku"} :
           Truthy(entry.value[prop])

\* The four ways a page gives no graph record: no state script, a payload
\* shorter than 100 characters, JSON that does not parse, or no
\* product-shaped node.
GraphUnusable(page) ==
    \/ ~page.script
    \/ page.rawLen < 100
    \/ ~page.json
    \/ \A k \in DOMAIN page.graph : ~ProductShaped(page.graph[k])

\* C8: fallback ordering. For the page scraped last: HTML-fallback records
\* are among its products only if the graph gave nothing for one of the four
\* reasons; such a page yields no graph-derived record; scraping it still
\* returns (its HTML records, when its markup has product elements); and
\* the products of one page never mix the two extraction methods.
C8_FallbackOrdering ==
    p_last.page # NoPage =>
        LET page == Pages[p_last.page]
            products == p_last.products
            methods == {products[i]["extraction_method"] : i \in DOMAIN products}
        IN /\ HtmlParsing \in methods => GraphUnusable(page)
           /\ GraphUnusable(page) => ApolloGraphql \notin methods
           /\ GraphUnusable(page) /\ page.matches # <<>> => methods = {HtmlParsing}
           /\ ~GraphUnusable(page) => methods = {ApolloGraphql}
           /\ Cardinality(methods) <= 1

\* C8 witness: a page whose state script holds Item:1 in a payload of 99
\* characters was scraped and gave one record, from the HTML fallback.
C8_Witness ==
    /\ p_last.page = "short"
    /\ Pages["short"].script /\ Pages["short"].rawLen = 99
    /\ Len(p_last.products) = 1
    /\ p_last.products[1]["extraction_method"] = HtmlParsing

\* The run summary was written once, for a run that saved nothing.
StatsOfEmptyRun ==
    /\ Len(p_stats) = 1
    /\ p_stats[1].total_products_saved = 0
    /\ p_stats[1].extraction_methods = <<>>

\* C13: no page retrievable. As long as no page fetch of the run has given a
\* page (direct HTTP failed and rendering gave nothing, every time), no
\* record is kept or emitted; the run is never stuck before its end (a next
\* step of main() can always be taken, and every step moves the run
\* forward), and at its end the summary is written, with zero products and
\* no extraction method.
C13_NoPageRetrievable ==
    ~p_anyPage =>
        /\ p_sink = <<>> /\ p_allProducts = <<>> /\ p_saved = 0
        /\ p_pc # "done" => ENABLED Next
        /\ p_pc = "done" => StatsOfEmptyRun

\* C13 witness: two start URLs were tried, neither the direct request nor
\* the rendering gave a page, and the run has ended with its summary.
C13_Witness ==
    /\ p_pc = "done"
    /\ ~p_anyPage
    /\ p_scrapes = 2
    /\ p_usePlaywright
    /\ p_lastFetch.kinds = <<"http", "render">>
    /\ StatsOfEmptyRun

(***************************************************************************)
(* Claims about findProductArrays (checked under SpecWalkLive).            *)
(***************************************************************************)

\* No call in progress has a depth above MaxWalkDepth + 1, and a call that
\* is past its guard (it looks at its value and may recurse) has a depth of
\* at most MaxWalkDepth.
WalkDepthBounded ==
    /\ Len(w_stack) <= MaxWalkDepth + 2
    /\ \A i \in DOMAIN w_stack :
        /\ w_stack[i].depth = i - 1
        /\ w_stack[i].stage # "enter" => w_stack[i].depth <= MaxWalkDepth

\* C12: reference resolution termination. On every graph, one with a node
\* that references itself or with a cycle of references included,
\* findProductArrays returns (the stack of calls empties), and no call
\* deeper than the maximum depth of 5 recurses: a call at depth 6 returns at
\* its guard.
C12_WalkTerminates == [](WalkDepthBounded) /\ <>(w_stack = <<>>)

\* C12 witness: on the graph whose node references itself the walk has
\* reached a call at depth 6, still at its guard, through the reference.
C12_Witness ==
    /\ w_graph.id = "selfref"
    /\ Len(w_stack) = 7
    /\ WalkTop.depth = 6
    /\ WalkTop.obj = "a"
    /\ WalkTop.stage = "enter"

(***************************************************************************)
(* Claims about parsePrice (checked under SpecPrice).                      *)
(***************************************************************************)

\* What is left of a string when every character but the digits and the
\* decimal point is stripped.
PriceStripped(chars) == SelectSeq(chars, LAMBDA c : c \in DigitSet \/ c = ".")

\* A decimal: digits with at most one decimal point among them, and at
\* least one digit.
IsDecimal(chars) ==
    /\ \E i \in DOMAIN chars : chars[i] \in DigitSet
    /\ Cardinality({i \in DOMAIN chars : chars[i] = "."}) <= 1

\* The value of a decimal: its digits, scaled by the number of digits that
\* follow the point.
DecimalValue(chars) ==
    LET points == {i \in DOMAIN chars : chars[i] = "."}
        places == IF points = {} THEN 0 ELSE Len(chars) - Least(points)
    IN Dec(DigitsToNat(SelectSeq(chars, LAMBDA c : c \in DigitSet)), places)

\* C14 (as claimed): price parsing. For a string, parsePrice is the decimal
\* that is left once every character but digits and the decimal point is
\* stripped, and null when what is left is empty or is not a decimal; null
\* and undefined give null; "$5.99" gives 5.99 and "was $7.99 each" gives
\* 7.99.  Both parsePrice functions.
C14_PriceParsing ==
    (pr_out # <<>> /\ pr_input.k \in {"string", "null", "undefined"}) =>
        LET expected ==
                IF pr_input.k # "string" THEN Null
                ELSE IF IsDecimal(PriceStripped(pr_input.s))
                     THEN DecimalValue(PriceStripped(pr_input.s))
                     ELSE Null
        IN /\ pr_out[1] = expected
           /\ pr_out[2] = expected
           /\ pr_input = Str(<<"$", "5", ".", "9", "9">>) => pr_out[1] = Dec(599, 2)
           /\ pr_input = Str(<<"w", "a", "s", " ", "$", "7", ".", "9", "9", " ", "e", "a", "c", "h">>)
                  => pr_out[1] = Dec(799, 2)

(***************************************************************************)
(* Claims about the lifecycle of a record and the listing traversal        *)
(* (checked under Spec)                                                    *)
(***************************************************************************)
\* C17 (as claimed): immutability after emission. Every record of
\* allProducts was written to the sink by the listing pass, in the same
\* order; no field of it differs from what was written.
C17_ImmutableAfterEmission ==
    \A i \in DOMAIN p_allProducts : Snapshot(p_allProducts[i]) = p_sink[i]

\* A change of a record from old to new is one that mergeProductDetails
\* makes: only fields of its list that were empty (or the placeholder
\* store, or a zero price) are assigned, and the two stamp fields are set
\* (every call of it names a method: main.js 1498-1532, 1779).
MergedFrom(old, new) ==
    /\ Truthy(new["detail_extraction_method"])
    /\ mergeProductDetails(old, new, new["detail_extraction_method"], p_now).target = new

\* The records the normalizers created for the page scraped last.
CreatedLast(last) ==
    IF last.page = NoPage THEN <<>> ELSE ScrapeExtract(Pages[last.page], last.url, last.at)

\* C18 (as claimed): mutation only through merge. A record enters
\* allProducts as the normalizer created it, and every later change of a
\* record of allProducts is one mergeProductDetails makes.
C18_MutationOnlyThroughMerge ==
    [][/\ \A i \in DOMAIN p_allProducts' :
              i > Len(p_allProducts) =>
                  \E j \in DOMAIN CreatedLast(p_last') :
                      CreatedLast(p_last')[j] = p_allProducts'[i]
       /\ \A i \in DOMAIN p_allProducts :
              p_allProducts'[i] # p_allProducts[i] =>
                  MergedFrom(p_allProducts[i], p_allProducts'[i])]_vars

\* The start URL of a page URL and the number of the page it asks for.
StartUrlOf(pageUrl) == TakeUntil(pageUrl.s, {"?page="})
PageNoOf(pageUrl) ==
    IF AfterPart(pageUrl.s, "?page=") = <<>> THEN 1
    ELSE DigitsToNat(AfterPart(pageUrl.s, "?page="))

\* Every record of the page scraped last is processed: its key is
\* registered for deduplication and a record with that key is counted and
\* in the sink.
LastPageProcessed ==
    /\ p_saved = Len(p_sink)
    /\ \A j \in DOMAIN p_last.products :
           LET key == ProductKey(p_last.products[j])
           IN /\ Truthy(key)
              /\ key \in p_seenProductIds
              /\ \E i \in DOMAIN p_sink : ProductKey(p_sink[i]) = key

C21_PerStartUrlPagination ==
    [][/\ (/\ p_scrapes' = p_scrapes + 1
           /\ (p_scrapes = 0 \/ StartUrlOf(p_last'.url) # StartUrlOf(p_last.url)))
          => /\ PageNoOf(p_last'.url) = 1
             /\ p_last'.url = p_cfg.initial[p_urlIdx]
       /\ (p_pc = "listing" /\ p_scrapes' = p_scrapes /\ p_urlIdx' = p_urlIdx + 1)
          => p_saved >= p_cfg.wanted]_vars

\* C22 (as claimed): stealth pacing. Every listing-page request of the run
\* but the very first one comes after a sleep of at least the fixed delay.
C22_StealthPacing ==
    [][(p_scrapes' = p_scrapes + 1 /\ p_scrapes > 0)
       => (p_last'.slept # <<>> /\ p_last'.slept[1] >= DELAY_MS_VALUE)]_vars

\* C23: bounded enrichment concurrency. At most detailConcurrency detail
\* fetches are in flight, all of them of the chunk dispatched last; while
\* the HTTP detail pass runs, every chunk before the current one has
\* completed and was followed by one pause.
C23_BoundedEnrichment ==
    /\ Cardinality(p_inflight) <= p_cfg.detailConcurrency
    /\ \A req \in p_inflight :
           /\ p_chunkStart < req.pos
           /\ req.pos <= p_chunkStart + p_cfg.detailConcurrency
    /\ p_pc = "details" =>
           /\ Len(p_pauses) * p_cfg.detailConcurrency = p_chunkStart
           /\ \A i \in DOMAIN p_pauses : p_pauses[i] = ChunkPauseMs
           /\ p_chunkStart < Len(p_need)

\* The second chunk is in flight, after the first one and a pause.
C23_Witness ==
    /\ p_pc = "details"
    /\ p_chunkStart > 0
    /\ p_inflight # {}
    /\ p_pauses = <<ChunkPauseMs>>

\* C24 (as claimed): shared mutable state. A detail fetch that completes
\* while another fetch of its chunk is in flight writes none of the
\* run-scoped variables saved, seenProductIds and nextBuildId.
C24_SharedMutableState ==
    [][(/\ p_pc = "details"
        /\ Cardinality(p_inflight) >= 2
        /\ p_inflight' # p_inflight /\ p_inflight' \subseteq p_inflight)
       => /\ p_saved' = p_saved
          /\ p_seenProductIds' = p_seenProductIds
          /\ p_nextBuildId' = p_nextBuildId]_vars

\* The records of the sink that carry the _enriched marker.
EnrichedEmissions == {i \in DOMAIN p_sink : p_sink[i]["_enriched"] = True}

\* C27: enriched emission only on change. A record of the sink carries the
\* _enriched marker only if a merge of the enrichment pass changed it (such
\* a merge leaves its method in detail_extraction_method), and the
\* enrichment pass emits no record twice.
C27_EnrichedOnlyOnChange ==
    \A i \in EnrichedEmissions :
        /\ Truthy(p_sink[i]["detail_extraction_method"])
        /\ \A j \in EnrichedEmissions :
               j # i => ProductKey(p_sink[j]) # ProductKey(p_sink[i])

\* C28: Playwright detail merge completeness. When the browser detail pass
\* finishes, every product whose detail page produced extracted data is what
\* mergeProductDetails makes of it with that data: no entry of
\* extractedDataMap is skipped because an earlier one was merged.
C28_PlaywrightMergeComplete ==
    [][(p_pc = "playwright" /\ p_pc' # p_pc) =>
          LET prepared == PrepareRequests(p_allProducts, Remaining(p_allProducts))
          IN \A entry \in p_extracted' :
                 p_allProducts'[entry.index] =
                     mergeProductDetails(prepared[entry.index],
                                         PlaywrightDetail(entry.data),
                                         PlaywrightDetailMethod, p_now).target]_vars

(***************************************************************************)
(* Claims about the store of a normalized record (SpecStore)               *)
(***************************************************************************)
\* The retailer name a node carries inline: the first one, in the order of
\* InlineStoreProps; Null when it carries none.
InlineStoreName(node) == OrChain([i \in DOMAIN InlineStoreProps |-> node[InlineStoreProps[i]]])

\* The name derived from the /store/<slug> segment of the path of a URL;
\* Null when the path has no such segment.
StoreSegmentName(url) ==
    LET slug == AfterPart(Pathname(url.s), "/store/")
    IN IF slug = <<>> THEN Null ELSE Str(Capitalize(slug))

\* The store the claim gives a record.
StoreClaimed(node, pageUrl) ==
    IF InlineStoreName(node) # Null THEN InlineStoreName(node)
    ELSE IF StoreSegmentName(pageUrl) # Null THEN StoreSegmentName(pageUrl)
    ELSE Instacart

\* C15 (as claimed): store derivation. The store of the record either
\* normalizer gives is the retailer name the node carries inline, else the
\* name derived from the /store/<slug> segment of the page URL, else
\* 'Instacart'.
C15_StoreDerivation ==
    st_out # <<>> =>
        /\ st_out[1].store = StoreClaimed(st_node, st_baseUrl)
        /\ st_out[2].store = StoreClaimed(st_node, st_baseUrl)

(***************************************************************************)
(* Claims about the cookie jar (SpecCookie)                                *)
(***************************************************************************)
\* A call carries the cookie name=value.
Carries(call, name, value) ==
    \E i \in DOMAIN call.cookie : call.cookie[i] = name \o <<"=">> \o value

\* The jar holds every cookie the responses have set, with its last value.
JarHoldsLatest ==
    \A c \in ck_latest : \E i \in DOMAIN ck_jar : ck_jar[i] = c

\* Every call of the kind carries every cookie set before it was made.
CallsCarryLatest(kind) ==
    \A i \in DOMAIN ck_calls :
        ck_calls[i].kind = kind =>
            \A c \in ck_calls[i].latest : Carries(ck_calls[i], c[1], c[2])

\* C19 (as claimed): cookie persistence. A cookie set by a Transport
\* response is in the jar, and every later Transport request and every
\* later Render call carries it with the value set last.
C19_CookiePersistence ==
    /\ JarHoldsLatest
    /\ CallsCarryLatest("transport")
    /\ CallsCarryLatest("render")

\* C25: monotonic shared state. The flag usePlaywright never goes back
\* from true to false, and a name stored in the jar stays in the jar.
C25_MonotonicSharedState ==
    [][/\ ck_usePlaywright => ck_usePlaywright'
       /\ \A i \in DOMAIN ck_jar : \E j \in DOMAIN ck_jar' : ck_jar'[j][1] = ck_jar[i][1]]_vars

\* The flag is set, and the jar holds two names, one of them with a value
\* that replaced the one an earlier request was sent with.
C25_Witness ==
    /\ ck_usePlaywright
    /\ Len(ck_jar) = 2
    /\ \E i \in DOMAIN ck_jar, k \in DOMAIN ck_calls :
           \E c \in ck_calls[k].latest : c[1] = ck_jar[i][1] /\ c[2] # ck_jar[i][2]

(***************************************************************************)
(* Claims about the concurrency settings (SpecRender).                     *)
(***************************************************************************)
\* C26: render concurrency cap. For every permitted value of
\* detailConcurrency, every browser crawler the run creates has a concurrency
\* lower than the detail-enrichment concurrency.
C26_RenderConcurrencyCap ==
    \A i \in DOMAIN rc_crawlers : rc_crawlers[i].maxConcurrency < rc_detail

\* C26 as the code has it: DETAIL_CONCURRENCY is within 1..10; a browser
\* crawler is never more concurrent than the detail enrichment and never more
\* than 4 at once; the detail crawler is less concurrent exactly when
\* DETAIL_CONCURRENCY is above 4, the listing crawler exactly when it is
\* above 1.
C26_RenderConcurrencyCapAmended ==
    rc_pc = "ready" =>
        /\ rc_detail \in 1 .. MaxDetailConcurrency
        /\ \A i \in DOMAIN rc_crawlers :
               LET c == rc_crawlers[i]
               IN  /\ c.maxConcurrency >= 1
                   /\ c.maxConcurrency <= rc_detail
                   /\ c.maxConcurrency <= MaxBrowserDetailConcurrency
                   /\ c.layer = "detail" =>
                          (c.maxConcurrency < rc_detail
                               <=> rc_detail > MaxBrowserDetailConcurrency)
                   /\ c.layer = "listing" =>
                          (c.maxConcurrency < rc_detail <=> rc_detail > 1)

\* A run with the highest detail concurrency has created both crawlers.
C26_Witness ==
    /\ rc_detail = MaxDetailConcurrency
    /\ \E i, j \in DOMAIN rc_crawlers :
           /\ rc_crawlers[i].layer = "detail"
           /\ rc_crawlers[i].maxConcurrency = MaxBrowserDetailConcurrency
           /\ rc_crawlers[j].layer = "listing"

(***************************************************************************)
(* Claims about the frame of mergeProductDetails (SpecMerge).              *)
(***************************************************************************)
\* The values an incoming field is skipped for.
MergeSkipped == {Undef, Null, EmptyStr}

\* C29: merge frame. A call of mergeProductDetails changes no field outside
\* the mergeable list and the two stamps, a field of the list changes only to
\* an incoming value that is not null, undefined or empty, and a call that
\* returns false leaves the target as it was.
C29_MergeFrame ==
    [][m_calls' = m_calls + 1 =>
          /\ \A f \in OtherFields : m_target'[f] = m_target[f]
          /\ \A f \in MergeFields :
                 m_target'[f] # m_target[f] =>
                     /\ m_detail # NullObj
                     /\ m_detail[f] \notin MergeSkipped
                     /\ m_target'[f] = m_detail[f]
          /\ ~m_ret' => m_target' = m_target]_vars

\* A call has returned true and has set the stamps, and it has left alone a
\* field of the target for which the payload holds null or the empty string.
C29_Witness ==
    /\ m_calls > 0
    /\ m_ret
    /\ m_detail # NullObj
    /\ m_target["enriched_at"] # m_prev["enriched_at"]
    /\ \E f \in MergeFields :
           /\ m_detail[f] \in {Null, EmptyStr}
           /\ Truthy(m_target[f])
           /\ m_target[f] = m_prev[f]

(***************************************************************************)
(* Claims about the dedupe filter of the CheerioCrawler variant            *)
(* (SpecCheerio).                                                          *)
(***************************************************************************)
\* The LIST requests whose handler starts in this step with dedupe enabled,
\* on a page with products, and with room under results_wanted for all of
\* them: what the handler goes on with is what the dedupe filter kept.
DedupeStarts ==
    {req \in c_queue \ c_queue' :
        /\ req.label = "LIST"
        /\ c_cfg.dedupe
        /\ Site[req.url].products # <<>>
        /\ c_cfg.wanted - c_saved >= Len(Site[req.url].products)}

\* The product at position i of the page of req goes on to the product loop.
KeptByDedupe(req, i) ==
    \E t \in c_running' \ c_running :
        /\ t.url = req.url
        /\ \E k \in DOMAIN t.prods : t.prods[k] = Site[req.url].products[i]

\* C30: dedupe removes only duplicates. With dedupe enabled, a product of a
\* listing page is kept unless a product with the same product_url was seen
\* before it in the run; a product without product_url is kept.
C30_DedupeOnlyDuplicates ==
    [][\A req \in DedupeStarts :
           LET products == Site[req.url].products
           IN \A i \in DOMAIN products :
                  (/\ products[i].url \notin c_seenUrls
                   /\ \A j \in 1..(i - 1) : products[j].url # products[i].url)
                      => KeptByDedupe(req, i)]_vars

====
